---- MODULE Spec2Model ----
(***************************************************************************)
(* Query-resolution core of the data-analyst / querybot services:          *)
(*   - get_sql_result        (data-analyst execution guard)                *)
(*   - run_sql / _excute     (querybot rectification loop, per adapter)    *)
(*   - get_cached_query / write_to_cache / lambda_handler (semantic cache) *)
(* SQL texts are sequences of one-character strings so that strip, upper,  *)
(* lower, startswith and replace are computed as Python computes them.     *)
(***************************************************************************)
EXTENDS Integers, Sequences, FiniteSets, TLC

(***************************************************************************)
(* Python string helpers                                                   *)
(***************************************************************************)
Lowers == <<"a","b","c","d","e","f","g","h","i","j","k","l","m",
            "n","o","p","q","r","s","t","u","v","w","x","y","z">>
Uppers == <<"A","B","C","D","E","F","G","H","I","J","K","L","M",
            "N","O","P","Q","R","S","T","U","V","W","X","Y","Z">>

Whitespace == {" ", "\n", "\t"}

\* str.upper() on one character
UpperChar(c) ==
    IF \E i \in 1..Len(Lowers) : Lowers[i] = c
    THEN Uppers[CHOOSE i \in 1..Len(Lowers) : Lowers[i] = c]
    ELSE c

\* str.lower() on one character
LowerChar(c) ==
    IF \E i \in 1..Len(Uppers) : Uppers[i] = c
    THEN Lowers[CHOOSE i \in 1..Len(Uppers) : Uppers[i] = c]
    ELSE c

upper(s) == [i \in 1..Len(s) |-> UpperChar(s[i])]
lower(s) == [i \in 1..Len(s) |-> LowerChar(s[i])]

\* str.strip(): drop leading and trailing whitespace
strip(s) ==
    LET keep == {i \in 1..Len(s) : s[i] \notin Whitespace}
    IN  IF keep = {} THEN <<>>
        ELSE LET lo == CHOOSE i \in keep : \A j \in keep : i <= j
                 hi == CHOOSE i \in keep : \A j \in keep : j <= i
             IN  SubSeq(s, lo, hi)

\* str.startswith(prefix)
startswith(s, prefix) ==
    /\ Len(prefix) <= Len(s)
    /\ SubSeq(s, 1, Len(prefix)) = prefix

\* str.replace(old, new): non-overlapping occurrences, left to right
RECURSIVE replace(_, _, _)
replace(s, old, new) ==
    IF Len(s) < Len(old) THEN s
    ELSE IF SubSeq(s, 1, Len(old)) = old
         THEN new \o replace(SubSeq(s, Len(old) + 1, Len(s)), old, new)
         ELSE <<Head(s)>> \o replace(Tail(s), old, new)

\* `old in s`
contains(s, old) ==
    \E i \in 1..(Len(s) - Len(old) + 1) : SubSeq(s, i, i + Len(old) - 1) = old

kwSELECT == <<"S","E","L","E","C","T">>
kwWITH   == <<"W","I","T","H">>

\* DatabaseHelper.proceed_with_sql: the SELECT/WITH gate
proceed_with_sql(s) ==
    \/ startswith(upper(strip(s)), kwSELECT)
    \/ startswith(upper(strip(s)), kwWITH)

(***************************************************************************)
(* Sample statements                                                       *)
(***************************************************************************)
sqlSelectUpper == <<"S","E","L","E","C","T"," ","1">>
sqlSelectId    == <<"s","e","l","e","c","t"," ","i","d"," ","f","r","o","m"," ","t">>
sqlSelectSemi  == <<"S","E","L","E","C","T"," ","1",";">>
sqlWithPadded  == <<" ","W","i","t","h"," ","a">>
sqlSelectLit   == <<"S","E","L","E","C","T"," ","'","a","'">>
sqlDrop        == <<"D","R","O","P"," ","t">>
sqlParenSelect == <<"(","S","E","L","E","C","T"," ","1",")">>

Statements == {sqlSelectUpper, sqlSelectId, sqlSelectSemi, sqlWithPadded,
               sqlSelectLit, sqlDrop, sqlParenSelect}

(***************************************************************************)
(* State                                                                   *)
(***************************************************************************)
VARIABLES
    \* ---- get_sql_result (pgsql_executor.py) ----
    sql,                \* argument: the statement to run
    engine,             \* extractor.engine is set
    num_record_thresh,  \* configured row threshold
    g_pc,               \* caller position in get_sql_result
    w_pc,               \* worker position in execute_sql
    w_conn,             \* connection of `with engine.connect()`
    num_rows,           \* result of the counting wrapper query
    w_ret,              \* (df, error_msg) returned by execute_sql
    w_exc,              \* the exception execute_sql caught, if any
    timed_out,          \* future.result raised TimeoutError
    w_pc_at_timeout,    \* worker position when the timeout fired
    g_ret,              \* [df, error_msg] returned by get_sql_result
    backend_log,        \* statements received by the backend, in order
    \* ---- run_sql (querybot executor.py) ----
    database,               \* self.database: which DatabaseHelper runs
    rectification_attempt,  \* self.rectification_attempt
    command,                \* the statement run_sql holds
    result,                 \* DataFrame or error string of the last _excute
    rectification_cnt,      \* loop counter
    r_pc,                   \* position in run_sql
    r_events,               \* calls made so far: _excute, correct, drop, create
    \* ---- lambda_handler and the semantic cache (data-analyst) ----
    cache,              \* rows of the cache table, in insertion order
    cache_table,        \* the cache table exists
    request,            \* parsed_input of the running invocation
    l_pc,               \* position in lambda_handler
    similarity_examples,\* what similarity_search returned to get_cached_query
    cached_sql,         \* `sql` returned by get_cached_query
    l_steps,            \* pipeline steps this invocation has performed
    l_status,           \* status code of the api_response
    \* ---- run_normalization_process (postprocessor.py) ----
    n_sql,              \* argument: the executed statement
    n_result,           \* argument: the DataFrame it produced
    n_schema,           \* rows of convert_schema_dict_to_df(extractor.get_schema_info())
    n_score,            \* fuzz.token_set_ratio of the literal against each column value
    n_reexec,           \* what the guard answers for the rewritten statement
    n_pc,               \* position in run_normalization_process
    n_tab_comps,        \* extract_tab_components(sql, schema)
    n_norm,             \* what normalize_values returned
    n_executed,         \* statements run_normalization_process sent for execution
    n_ret,              \* the 5-tuple returned
    \* ---- schema phase of lambda_handler (lines 421-483) ----
    s_db_type,          \* db_config['db_type']
    s_backend,          \* tables of the database / CSV files under the prefix
    s_store,            \* persisted artifacts: schema text and schema_info JSON
    s_session,          \* parsed_input.get("session")
    s_metadata,         \* parsed_input.get("metadata") and the sheets it names
    s_pc,               \* position in lambda_handler
    s_schema_str,       \* schema_str
    s_schema_info,      \* tables of the extractor's schema_info
    s_retrieved,        \* body of the persisted text read by this invocation
    s_reinit,           \* outcome of re-initialising the extractor (line 446-452)
    s_extractions,      \* results of initialize_schema_extractor in this invocation
    s_puts,             \* put_object calls of this invocation
    s_status,           \* status code of the api_response
    \* ---- querybot lambda_handler and its adapter's connection ----
    q_database,         \* body.get("database_type")
    q_session,          \* body.get("session")
    q_pc,               \* position in lambda_handler
    q_conn,             \* self.conn of the adapter built by this invocation
    q_res,              \* kind of value run_sql returned
    q_status,           \* statusCode of the response
    q_attempts,         \* rectification_attempt of the adapter
    q_sql,              \* first value returned by the generator function
    q_command,          \* the statement run_sql holds
    q_result,           \* DataFrame or error string of the last _excute
    q_cnt,              \* rectification_cnt
    q_events,           \* calls run_sql made: _excute, correct
    q_body_sql,         \* sql_query of the response body
    \* ---- one question through lambda_handler / generate_answers_db ----
    o_entry,            \* the function this run entered
    o_db_type,          \* db_config.get("db_type")
    o_query_type,       \* query_type
    o_pc,               \* position in the entered function
    o_error_msg,        \* error_msg
    o_rows,             \* table_ans.shape[0]
    o_iter_no,          \* iter_no of the re-execution loop
    o_answer_gen,       \* answer_gen
    o_log,              \* steps performed so far, in order
    o_raised,           \* generate_answers_db's `except Exception` was entered
    o_first,            \* what the first execution returned
    o_status,           \* status code of the api_response
    \* ---- cache operations of concurrent invocations (cache_operations.py) ----
    k_op,               \* per invocation: "store" (write_to_cache) or "lookup"
    k_pc,               \* per invocation: position in the operation
    k_conn,             \* per invocation: the local variable conn
    k_ret,              \* per invocation: what the operation returned
    k_raised,           \* per invocation: the operation raised to its caller
    k_fault,            \* a call failed for a reason other than the other invocation
    k_table,            \* the cache table in the store
    k_table0,           \* the cache table when the invocations started
    k_created,          \* creations of the cache table that were committed
    k_rows,             \* rows inserted and committed
    \* ---- per-table loops of DatabaseSchemaExtractor (get_schema_str.py) ----
    e_db_type,          \* self.db_type
    e_faults,           \* per table: the call that fails while it is processed
    e_pc,               \* position in extract_schema
    e_k,                \* index of the table the running loop is at
    e_schema_info,      \* per table: its entry in self.schema_info
    e_raised            \* extract_schema raised

guardVars == <<sql, engine, num_record_thresh, g_pc, w_pc, w_conn, num_rows,
               w_ret, w_exc, timed_out, w_pc_at_timeout, g_ret, backend_log>>

runVars == <<database, rectification_attempt, command, result,
             rectification_cnt, r_pc, r_events>>

lamVars == <<cache, cache_table, request, l_pc, similarity_examples,
             cached_sql, l_steps, l_status>>

normVars == <<n_sql, n_result, n_schema, n_score, n_reexec, n_pc, n_tab_comps,
              n_norm, n_executed, n_ret>>

schemaVars == <<s_db_type, s_backend, s_store, s_session, s_metadata, s_pc,
                s_schema_str, s_schema_info, s_retrieved, s_reinit, s_extractions,
                s_puts, s_status>>

connVars == <<q_database, q_session, q_pc, q_conn, q_res, q_status, q_attempts, q_sql,
              q_command, q_result, q_cnt, q_events, q_body_sql>>
extractVars == <<e_db_type, e_faults, e_pc, e_k, e_schema_info, e_raised>>
cacheVars == <<k_op, k_pc, k_conn, k_ret, k_raised, k_fault, k_table, k_table0,
               k_created, k_rows>>
orchVars == <<o_entry, o_db_type, o_query_type, o_pc, o_error_msg, o_rows, o_iter_no,
              o_answer_gen, o_log, o_raised, o_first, o_status>>

nonGuardVars == <<runVars, lamVars, normVars, schemaVars, connVars, orchVars, cacheVars, extractVars>>
nonRunVars   == <<guardVars, lamVars, normVars, schemaVars, connVars, orchVars, cacheVars, extractVars>>
nonLamVars   == <<guardVars, runVars, normVars, schemaVars, connVars, orchVars, cacheVars, extractVars>>
nonNormVars  == <<guardVars, runVars, lamVars, schemaVars, connVars, orchVars, cacheVars, extractVars>>
nonSchemaVars == <<guardVars, runVars, lamVars, normVars, connVars, orchVars, cacheVars, extractVars>>
nonConnVars  == <<guardVars, runVars, lamVars, normVars, schemaVars, orchVars, cacheVars, extractVars>>
nonOrchVars  == <<guardVars, runVars, lamVars, normVars, schemaVars, connVars, cacheVars, extractVars>>
nonCacheVars == <<guardVars, runVars, lamVars, normVars, schemaVars, connVars, orchVars, extractVars>>
nonExtractVars == <<guardVars, runVars, lamVars, normVars, schemaVars, connVars, orchVars, cacheVars>>

vars == <<guardVars, runVars, lamVars, normVars, schemaVars, connVars, orchVars, cacheVars, extractVars>>

(***************************************************************************)
(* Bounds                                                                  *)
(***************************************************************************)
MaxThresh == 2
MaxRows   == 3
MaxAttempts == 2
MaxCacheRows == 2

\* exceptions the database driver raises
BackendErrors == {[type |-> "ProgrammingError", msg |-> "syntax error"],
                  [type |-> "OperationalError", msg |-> "connection lost"]}

\* str(e)
str(e) == e.msg

NoRet == [df |-> "unset", error_msg |-> "unset"]
NoExc == [type |-> "none", msg |-> ""]
NumRecordsException == [type |-> "NumRecordsException", msg |-> ""]

TimeoutMsg       == "SQL execution timeout error!"
InvalidSqlMsg    == "Error: Generated SQL not valid! Please retry with a different question."

\* f"{num_rows}" for the row counts the model reaches
Digits == <<"0","1","2","3","4","5","6","7","8","9">>
fmt(n) == Digits[n + 1]

\* line 88: error_msg of the NumRecordsException handler
RecordThreshMsg(n) ==
    "Number of data records is " \o fmt(n) \o
    " which is more than the threshold. Rephrase the question by adding a filter criteria"

\* line 99: raise ConnectionError(...)
NoEngineError == [type |-> "ConnectionError", msg |-> "Database connection not established"]

\* the `except Exception` handler that wraps: f"Execution error: {str(e)}"
WrappedErrorPair(e) == [df |-> "empty", error_msg |-> "Execution error: " \o str(e)]

\* the worker's handler with the outer handler's prefix on the message
WorkerErrorPairPrefixed(e) ==
    [df |-> "empty", error_msg |-> "Execution error: " \o str(e)]

\* lines 89-91 of execute_sql: df = pd.DataFrame(); error_msg = str(e)
WorkerErrorPair(e) == [df |-> "empty", error_msg |-> str(e)]

\* off-by-one variant of the threshold comparison
ExceedsThresholdInclusive(thresh, n) == thresh <= n

\* line 78: num_record_thresh < num_rows
ExceedsThreshold(thresh, n) == thresh < n

\* clean_sql = sql.replace(';', '') wrapped by SELECT COUNT(*) FROM (...) as subquery
CountQuery(s) == [kind |-> "count", text |-> replace(s, <<";">>, <<>>)]
MainQuery(s)  == [kind |-> "main", text |-> s]

(***************************************************************************)
(* get_sql_result                                                          *)
(***************************************************************************)
RunIdle ==
    /\ database = "none"
    /\ rectification_attempt = 0
    /\ command = <<>>
    /\ result = [type |-> "unset"]
    /\ rectification_cnt = 0
    /\ r_pc = "idle"
    /\ r_events = <<>>

None == "None"
NoRequest == [question_query_map |-> <<>>, user_query |-> "", cache_thresh |-> 0]

LamIdle ==
    /\ cache = <<>>
    /\ cache_table = FALSE
    /\ request = NoRequest
    /\ l_pc = "off"
    /\ similarity_examples = <<>>
    /\ cached_sql = None
    /\ l_steps = {}
    /\ l_status = 0

GuardStart ==
    /\ sql \in Statements
    /\ engine \in BOOLEAN
    /\ num_record_thresh \in 0..MaxThresh
    /\ g_pc = "call"
    /\ w_pc = "none"
    /\ w_conn = "none"
    /\ num_rows = -1
    /\ w_ret = NoRet
    /\ w_exc = NoExc
    /\ timed_out = FALSE
    /\ w_pc_at_timeout = "none"
    /\ g_ret = NoRet
    /\ backend_log = <<>>

NormIdle ==
    /\ n_sql = <<>>
    /\ n_result = [columns |-> <<>>, rows |-> <<>>]
    /\ n_schema = <<>>
    /\ n_score = <<>>
    /\ n_reexec = NoRet
    /\ n_pc = "idle"
    /\ n_tab_comps = <<>>
    /\ n_norm = <<>>
    /\ n_executed = <<>>
    /\ n_ret = <<>>

SchemaIdle ==
    /\ s_db_type = "none"
    /\ s_backend = {}
    /\ s_store = <<>>
    /\ s_session = "none"
    /\ s_metadata = <<>>
    /\ s_pc = "idle"
    /\ s_schema_str = <<>>
    /\ s_schema_info = {}
    /\ s_retrieved = <<>>
    /\ s_reinit = "none"
    /\ s_extractions = <<>>
    /\ s_puts = <<>>
    /\ s_status = 0

ConnIdle ==
    /\ q_database = "none"
    /\ q_session = "none"
    /\ q_pc = "idle"
    /\ q_conn = "none"
    /\ q_res = "unset"
    /\ q_status = 0
    /\ q_attempts = 0
    /\ q_sql = <<>>
    /\ q_command = <<>>
    /\ q_result = [type |-> "unset"]
    /\ q_cnt = 0
    /\ q_events = <<>>
    /\ q_body_sql = <<>>

ExtractIdle ==
    /\ e_db_type = "none"
    /\ e_faults = <<>>
    /\ e_pc = "idle"
    /\ e_k = 0
    /\ e_schema_info = <<>>
    /\ e_raised = FALSE

CacheIdle ==
    /\ k_op = <<>>
    /\ k_pc = <<>>
    /\ k_conn = <<>>
    /\ k_ret = <<>>
    /\ k_raised = <<>>
    /\ k_fault = FALSE
    /\ k_table = "none"
    /\ k_table0 = "none"
    /\ k_created = 0
    /\ k_rows = 0

OrchIdle ==
    /\ o_entry = "none"
    /\ o_db_type = "none"
    /\ o_query_type = "none"
    /\ o_pc = "idle"
    /\ o_error_msg = <<>>
    /\ o_rows = 0
    /\ o_iter_no = 0
    /\ o_answer_gen = ""
    /\ o_log = <<>>
    /\ o_raised = FALSE
    /\ o_first = <<>>
    /\ o_status = 0

GuardInit == GuardStart /\ RunIdle /\ LamIdle /\ NormIdle /\ SchemaIdle /\ ConnIdle /\ OrchIdle /\ CacheIdle /\ ExtractIdle

\* lines 96-103: engine check, then submit execute_sql to the single worker
GuardSubmit ==
    /\ g_pc = "call"
    /\ IF ~engine
       THEN /\ g_pc' = "returned"
            /\ g_ret' = WrappedErrorPair(NoEngineError)
            /\ w_pc' = w_pc
       ELSE /\ g_pc' = "waiting"
            /\ w_pc' = "connect"
            /\ g_ret' = g_ret
    /\ UNCHANGED <<sql, engine, num_record_thresh, w_conn, num_rows, w_ret,
                   w_exc, timed_out, w_pc_at_timeout, backend_log>>
    /\ UNCHANGED nonGuardVars

\* line 73: engine.connect(); a failure is caught at line 89
WorkerConnect ==
    /\ w_pc = "connect"
    /\ \/ /\ w_conn' = "open"
          /\ w_pc' = "count"
          /\ UNCHANGED <<w_ret, w_exc>>
       \/ \E e \in BackendErrors :
             /\ w_conn' = w_conn
             /\ w_pc' = "done"
             /\ w_exc' = e
             /\ w_ret' = WorkerErrorPair(e)
    /\ UNCHANGED <<sql, engine, num_record_thresh, g_pc, num_rows, timed_out,
                   w_pc_at_timeout, g_ret, backend_log>>
    /\ UNCHANGED nonGuardVars

\* lines 75-76: the counting wrapper query
WorkerCount ==
    /\ w_pc = "count"
    /\ backend_log' = Append(backend_log, CountQuery(sql))
    /\ \/ \E n \in 0..MaxRows :
             /\ num_rows' = n
             /\ w_pc' = "check"
             /\ UNCHANGED <<w_conn, w_ret, w_exc>>
       \/ \E e \in BackendErrors :
             /\ num_rows' = num_rows
             /\ w_pc' = "done"
             /\ w_conn' = "closed"
             /\ w_exc' = e
             /\ w_ret' = WorkerErrorPair(e)
    /\ UNCHANGED <<sql, engine, num_record_thresh, g_pc, timed_out,
                   w_pc_at_timeout, g_ret>>
    /\ UNCHANGED nonGuardVars

\* lines 78-94: threshold check, then the statement itself
WorkerExecute ==
    /\ w_pc = "check"
    /\ w_pc' = "done"
    /\ w_conn' = "closed"
    /\ IF ExceedsThreshold(num_record_thresh, num_rows)
       THEN /\ w_ret' = [df |-> "empty", error_msg |-> RecordThreshMsg(num_rows)]
            /\ w_exc' = NumRecordsException
            /\ backend_log' = backend_log
       ELSE /\ backend_log' = Append(backend_log, MainQuery(sql))
            /\ \/ /\ w_ret' = [df |-> "rows", error_msg |-> ""]
                  /\ w_exc' = w_exc
               \/ \E e \in BackendErrors :
                     /\ w_ret' = WorkerErrorPair(e)
                     /\ w_exc' = e
    /\ UNCHANGED <<sql, engine, num_record_thresh, g_pc, num_rows, timed_out,
                   w_pc_at_timeout, g_ret>>
    /\ UNCHANGED nonGuardVars

\* line 105: future.result returns the worker's pair
GuardResult ==
    /\ g_pc = "waiting"
    /\ w_pc = "done"
    /\ g_ret' = w_ret
    /\ g_pc' = "exit_with"
    /\ UNCHANGED <<sql, engine, num_record_thresh, w_pc, w_conn, num_rows,
                   w_ret, w_exc, timed_out, w_pc_at_timeout, backend_log>>
    /\ UNCHANGED nonGuardVars

\* lines 107-110: exec_time_thresh elapsed before the worker finished
GuardTimeout ==
    /\ g_pc = "waiting"
    /\ w_pc # "done"
    /\ timed_out' = TRUE
    /\ w_pc_at_timeout' = w_pc
    /\ g_ret' = [df |-> "empty", error_msg |-> TimeoutMsg]
    /\ g_pc' = "exit_with"
    /\ UNCHANGED <<sql, engine, num_record_thresh, w_pc, w_conn, num_rows,
                   w_ret, w_exc, backend_log>>
    /\ UNCHANGED nonGuardVars

\* an executor left with shutdown(wait=False)
ExecutorShutdownNoWait == TRUE

\* leaving `with ThreadPoolExecutor(...)`: shutdown(wait=True) joins the worker
ExecutorShutdown == w_pc = "done"

\* lines 102-119: leave the with block and return [df, error_msg]
GuardReturn ==
    /\ g_pc = "exit_with"
    /\ ExecutorShutdown
    /\ g_pc' = "returned"
    /\ UNCHANGED <<sql, engine, num_record_thresh, w_pc, w_conn, num_rows,
                   w_ret, w_exc, timed_out, w_pc_at_timeout, g_ret, backend_log>>
    /\ UNCHANGED nonGuardVars

GuardNext ==
    \/ GuardSubmit
    \/ WorkerConnect
    \/ WorkerCount
    \/ WorkerExecute
    \/ GuardResult
    \/ GuardTimeout
    \/ GuardReturn

SpecGuard == GuardInit /\ [][GuardNext]_vars

(***************************************************************************)
(* Properties of get_sql_result                                            *)
(***************************************************************************)
MainSent  == \E i \in 1..Len(backend_log) : backend_log[i].kind = "main"
Counted   == num_rows # -1
WorkerRaisedBackendError == w_exc \in BackendErrors

\* C1: a statement that does not pass the SELECT/WITH gate is answered with the
\* invalid-statement failure and nothing (neither the COUNT(*) wrapper nor the
\* statement) is sent to the backend. Stated for a connected engine.
C1_GateBeforeBackend ==
    (engine /\ ~proceed_with_sql(sql)) =>
        /\ backend_log = <<>>
        /\ g_pc = "returned" => g_ret = [df |-> "empty", error_msg |-> InvalidSqlMsg]

\* C2 (as stated): once the count reported N, get_sql_result returns the
\* record-threshold failure and never runs the statement when N > T, and runs the
\* statement after the count when N <= T.
C2_AsStated ==
    (g_pc = "returned" /\ Counted) =>
        IF num_rows > num_record_thresh
        THEN /\ ~MainSent
             /\ g_ret = [df |-> "empty", error_msg |-> RecordThreshMsg(num_rows)]
        ELSE backend_log = <<CountQuery(sql), MainQuery(sql)>>

\* C2 (amended): when N > T the statement is never sent and the worker ends with
\* the record-threshold failure, which get_sql_result returns unless the time
\* threshold elapsed first (then it returns the timeout failure); when N <= T
\* (N = T included) the statement is sent right after the count. The statement is
\* never sent before a count that is within the threshold.
C2_RowThreshold ==
    /\ MainSent => (Counted /\ num_rows <= num_record_thresh
                    /\ backend_log = <<CountQuery(sql), MainQuery(sql)>>)
    /\ (w_pc = "done" /\ Counted) =>
          IF num_rows > num_record_thresh
          THEN /\ ~MainSent
               /\ w_ret = [df |-> "empty", error_msg |-> RecordThreshMsg(num_rows)]
               /\ g_pc = "returned" =>
                     /\ g_ret.df = "empty"
                     /\ g_ret.error_msg = IF timed_out THEN TimeoutMsg
                                          ELSE RecordThreshMsg(num_rows)
          ELSE MainSent

\* C2 witness: a run returned the record-threshold failure for N = T + 1
C2_Witness ==
    /\ g_pc = "returned"
    /\ num_rows = num_record_thresh + 1
    /\ g_ret.error_msg = RecordThreshMsg(num_rows)
    /\ ~MainSent

\* C3: after a timeout get_sql_result returns the timeout failure without
\* waiting for the worker: the worker is cancelled where the timeout found it.
C3_TimeoutCancelsWorker ==
    (g_pc = "returned" /\ timed_out) =>
        /\ g_ret = [df |-> "empty", error_msg |-> TimeoutMsg]
        /\ w_pc = w_pc_at_timeout

C20_ConnectionReleasedOnReturn ==
    g_pc = "returned" =>
        /\ w_conn # "open"
        /\ w_pc \in {"none", "done"}
        /\ (w_conn = "closed") = (backend_log # <<>>)

\* C20 witness: the time threshold elapsed while the worker held its connection,
\* and the connection is closed when get_sql_result has returned
C20_Witness ==
    /\ g_pc = "returned"
    /\ timed_out
    /\ w_pc_at_timeout \in {"count", "check"}
    /\ g_ret.error_msg = TimeoutMsg
    /\ w_conn = "closed"

(***************************************************************************)
(* run_sql and _excute of the querybot adapters                            *)
(***************************************************************************)
\* error texts are token sequences, so that `"TABLE_NOT_FOUND" in result` is a search
errSyntax   == <<"syntax", "error", "at", "or", "near">>
errTableNF  == <<"Query", "failed", "with", "status", "'FAILED':",
                 "TABLE_NOT_FOUND", "Table", "does", "not", "exist">>
errInvalid  == <<"Error:", "Generated", "SQL", "not", "valid!", "Please", "retry",
                 "with", "a", "different", "question.">>

RunErrors == {errSyntax, errTableNF}

DataFrame  == [type |-> "df"]
ErrStr(t)  == [type |-> "str", text |-> t]

\* isinstance(result, str)
isstr(r) == r.type = "str"

\* preprocess_sql, lines 318-333: the spellings of a bare id column
possible_cases == <<
    <<" ","i","d"," ">>, <<".","i","d"," ">>, <<" ","i","d",",">>, <<",","i","d"," ">>,
    <<".","i","d",",">>, <<",","i","d",")">>, <<" ","i","d",")">>, <<".","i","d",")">>,
    <<"(","i","d"," ">>, <<"(","i","d",",">>, <<"(","i","d",")">>, <<" ","i","d","\n">>,
    <<"(","i","d","\n">>, <<",","i","d","\n">> >>

quotedId == <<"\"","i","d","\"">>

\* lines 335-337: for c in possible_cases: if c in sql: sql = sql.replace(c, ...)
RECURSIVE quote_ids(_, _)
quote_ids(s, k) ==
    IF k > Len(possible_cases) THEN s
    ELSE LET c == possible_cases[k]
         IN  quote_ids(IF contains(s, c)
                       THEN replace(s, c, replace(c, <<"i","d">>, quotedId))
                       ELSE s,
                       k + 1)

\* PostgreSQLHelper.preprocess_sql / RedshiftHelper.preprocess_sql
preprocess_sql(s) == upper(quote_ids(lower(s), 1))

\* the text _excute hands to the gate and to the backend
ExecText(db, cmd) ==
    IF db \in {"postgresql", "redshift"} THEN preprocess_sql(cmd) ELSE cmd

\* line 834 with a different error-code spelling
TableNotFoundSpaced(r) == isstr(r) /\ contains(r.text, <<"TABLE", "NOT", "FOUND">>)

\* line 834: isinstance(result, str) and "TABLE_NOT_FOUND" in result
TableNotFound(r) == isstr(r) /\ contains(r.text, <<"TABLE_NOT_FOUND">>)

\* the while condition of run_sql
LoopContinues ==
    /\ rectification_attempt > 0
    /\ isstr(result)
    /\ rectification_cnt < rectification_attempt

Databases == {"sqlite", "postgresql", "redshift", "s3"}

RunStart ==
    /\ database \in Databases
    /\ rectification_attempt \in 0..MaxAttempts
    /\ command \in Statements
    /\ result = [type |-> "unset"]
    /\ rectification_cnt = 0
    /\ r_pc = "first"
    /\ r_events = <<>>

GuardIdle ==
    /\ sql = <<>>
    /\ engine = FALSE
    /\ num_record_thresh = 0
    /\ g_pc = "idle"
    /\ w_pc = "none"
    /\ w_conn = "none"
    /\ num_rows = -1
    /\ w_ret = NoRet
    /\ w_exc = NoExc
    /\ timed_out = FALSE
    /\ w_pc_at_timeout = "none"
    /\ g_ret = NoRet
    /\ backend_log = <<>>

RunInit == RunStart /\ GuardIdle /\ LamIdle /\ NormIdle /\ SchemaIdle /\ ConnIdle /\ OrchIdle /\ CacheIdle /\ ExtractIdle

\* _excute: the gate decides on the text the adapter would send
Gated(db, cmd) == proceed_with_sql(ExecText(db, cmd))

\* _excute: a DataFrame or f"{e}" from the backend, or the gate's fixed message
ExcuteResults(db, cmd) ==
    IF Gated(db, cmd)
    THEN {DataFrame} \cup {ErrStr(t) : t \in RunErrors}
    ELSE {ErrStr(errInvalid)}

Event(kind, site, cmd, sent, res) ==
    [ev |-> kind, site |-> site, cmd |-> cmd, sent |-> sent, res |-> res]

\* the record of one _excute call: what reached the backend and what came back
ExcuteEvent(site, db, cmd, res) ==
    Event("excute", site, cmd,
          IF Gated(db, cmd) THEN <<ExecText(db, cmd)>> ELSE <<>>, res)

\* run_sql: the first execution (line 164 / 361 / 828)
RunFirst ==
    /\ r_pc = "first"
    /\ \E res \in ExcuteResults(database, command) :
          /\ result' = res
          /\ r_events' = Append(r_events, ExcuteEvent("first", database, command, res))
    /\ r_pc' = IF database = "s3" THEN "table_check" ELSE "loop"
    /\ UNCHANGED <<database, rectification_attempt, command, rectification_cnt>>
    /\ UNCHANGED nonRunVars

\* S3AthenaHelper.run_sql lines 834-848: drop the database, recreate the external
\* tables, retry the statement; an exception of the drop request is logged
S3TableCheck ==
    /\ r_pc = "table_check"
    /\ IF TableNotFound(result)
       THEN \/ /\ r_events' = Append(r_events,
                     Event("drop", "table_check", command, <<>>, [type |-> "raised"]))
               /\ result' = result
            \/ \E made \in {"created", "failed"} :
               \E res \in ExcuteResults(database, command) :
                  /\ r_events' = r_events \o
                       << Event("drop", "table_check", command, <<>>, [type |-> "ok"]),
                          Event("create_athena_tables", "table_check", command, <<>>,
                                [type |-> made]),
                          ExcuteEvent("retry", database, command, res) >>
                  /\ result' = res
       ELSE UNCHANGED <<r_events, result>>
    /\ r_pc' = "loop"
    /\ UNCHANGED <<database, rectification_attempt, command, rectification_cnt>>
    /\ UNCHANGED nonRunVars

\* SQLiteHelper.run_sql line 173 passes four arguments to
\* Rectifier.correct(database, question, sql, error, schema_meta)
CorrectCallFits(db) == db # "sqlite"

\* one iteration of the while loop: correct(), then _excute() of its answer
RunRectify ==
    /\ r_pc = "loop"
    /\ LoopContinues
    /\ rectification_cnt' = rectification_cnt + 1
    /\ \/ /\ ~CorrectCallFits(database)
          /\ r_events' = Append(r_events,
                Event("correct", "loop", command, <<>>, [type |-> "TypeError"]))
          /\ r_pc' = "raised"
          /\ UNCHANGED <<command, result>>
       \/ /\ CorrectCallFits(database)
          /\ r_events' = Append(r_events,
                Event("correct", "loop", command, <<>>, [type |-> "raised"]))
          /\ r_pc' = "raised"
          /\ UNCHANGED <<command, result>>
       \/ /\ CorrectCallFits(database)
          /\ \E new \in Statements :
             \E res \in ExcuteResults(database, new) :
                /\ command' = new
                /\ result' = res
                /\ r_events' = r_events \o
                     << Event("correct", "loop", command, <<>>, [type |-> "ok"]),
                        ExcuteEvent("loop", database, new, res) >>
          /\ r_pc' = "loop"
    /\ UNCHANGED <<database, rectification_attempt>>
    /\ UNCHANGED nonRunVars

\* return result, command
RunReturn ==
    /\ r_pc = "loop"
    /\ ~LoopContinues
    /\ r_pc' = "done"
    /\ UNCHANGED <<database, rectification_attempt, command, result,
                   rectification_cnt, r_events>>
    /\ UNCHANGED nonRunVars

RunNext ==
    \/ RunFirst
    \/ S3TableCheck
    \/ RunRectify
    \/ RunReturn

SpecRun == RunInit /\ [][RunNext]_vars

(***************************************************************************)
(* Properties of run_sql                                                   *)
(***************************************************************************)
EventsOf(kind) == {i \in 1..Len(r_events) : r_events[i].ev = kind}
FirstFailedTableNotFound ==
    /\ r_events # <<>>
    /\ r_events[1].res.type = "str"
    /\ contains(r_events[1].res.text, <<"TABLE_NOT_FOUND">>)

\* C4: run_sql stops at the first successful execution: it makes at most R
\* correction requests, each correction request is followed by exactly one
\* execution of the corrected statement, and nothing is requested or executed
\* after an execution returned a result table. Stated for runs in which the
\* correction service answers every request that reaches it.
C4_LoopStopsAtFirstSuccess ==
    (\A i \in EventsOf("correct") : r_events[i].res.type # "raised") =>
        /\ r_pc # "raised"
        /\ Cardinality(EventsOf("correct")) <= rectification_attempt
        /\ \A i \in EventsOf("correct") :
              /\ i < Len(r_events)
              /\ r_events[i + 1].ev = "excute"
              /\ r_events[i + 1].site = "loop"
              /\ (i + 2 <= Len(r_events)) => r_events[i + 2].ev = "correct"
        /\ \A i \in EventsOf("excute") :
              r_events[i].res = DataFrame => i = Len(r_events)

\* C5: a statement rejected by the SELECT/WITH gate ends run_sql: nothing is
\* sent to the backend for it, no correction is requested and no further
\* execution is attempted.
C5_InvalidStatementIsFatal ==
    \A i \in EventsOf("excute") :
        r_events[i].res = ErrStr(errInvalid) =>
            /\ r_events[i].sent = <<>>
            /\ i = Len(r_events)

C10_ReturnedSqlIsExecuted ==
    r_pc = "done" =>
        LET last == CHOOSE i \in EventsOf("excute") :
                        \A j \in EventsOf("excute") : j <= i
        IN  /\ r_events[last].cmd = command
            /\ r_events[last].res = result
            /\ r_events[last].sent # <<>> => r_events[last].sent[1] = command

(***************************************************************************)
(* Semantic cache (cache_operations.py) and lambda_handler                 *)
(***************************************************************************)
Questions == {"total sales", "sales total by store", "list stores"}

\* get_embedding: the embedding service, as a fixed map to vectors of norm 5
Emb(q) ==
    CASE q = "total sales"          -> <<5, 0>>
      [] q = "sales total by store" -> <<4, 3>>
      [] q = "list stores"          -> <<-3, 4>>

Dot(a, b) == a[1] * b[1] + a[2] * b[2]
Norm(a)   == CHOOSE n \in 0..10 : n * n = Dot(a, a)

\* pgvector `a <=> b`: cosine distance, in hundredths
CosineDistance(a, b) == 100 - (100 * Dot(a, b)) \div (Norm(a) * Norm(b))

\* line 278: 1 - (question_embedding <=> %s::vector) AS similarity
Similarity(a, b) == 100 - CosineDistance(a, b)

\* cache_thresh the UI sends unless CACHE_THRESHOLD overrides it, in hundredths
DefaultCacheThresh == 95

Thresholds == {0, 50, 80, DefaultCacheThresh, 100}

CachedSqls == {sqlSelectUpper, sqlSelectId}

\* DataAnalyst.py line 521: the approve action sends the pair and the same question
ApproveRequests ==
    {[question_query_map |-> [queries |-> s, question |-> q],
      user_query |-> q, cache_thresh |-> DefaultCacheThresh] :
        s \in CachedSqls, q \in Questions}

\* DataAnalyst.py line 632: a question is sent with an empty map
QuestionRequests ==
    {[question_query_map |-> <<>>, user_query |-> q, cache_thresh |-> t] :
        q \in Questions, t \in Thresholds}

Requests == ApproveRequests \cup QuestionRequests

\* Python truth value of a dict
Truthy(m) == DOMAIN m # {}

\* write_to_cache lines 244-251 and insert_data_to_postgres: the row inserted
IngestRow(m) ==
    [query |-> m.queries, question |-> m.question,
     question_embedding |-> Emb(m.question)]

\* similarity_search lines 276-287: ORDER BY distance LIMIT 1, every possible answer
similarity_search(rows, query_embedding) ==
    IF rows = <<>> THEN {<<>>}
    ELSE {<<[query |-> rows[i].query, question |-> rows[i].question,
             similarity |-> Similarity(rows[i].question_embedding, query_embedding)]>> :
            i \in {j \in 1..Len(rows) :
                     \A k \in 1..Len(rows) :
                        CosineDistance(rows[j].question_embedding, query_embedding)
                          <= CosineDistance(rows[k].question_embedding, query_embedding)}}

\* the comparison with its operands exchanged
ThresholdMetSwapped(similarity, cache_thresh) == cache_thresh >= similarity

\* line 353: similarity >= cache_thresh
ThresholdMet(similarity, cache_thresh) == similarity >= cache_thresh

\* get_cached_query lines 350-356: the loop returns at its first element
CachedQueryFor(examples, cache_thresh) ==
    IF examples = <<>> THEN None
    ELSE IF ThresholdMet(examples[1].similarity, cache_thresh)
         THEN examples[1].query
         ELSE None

\* get_cached_query on a reachable store: every value it can return
GetCachedQueryResults(rows, text_query, cache_thresh) ==
    {CachedQueryFor(ex, cache_thresh) : ex \in similarity_search(rows, Emb(text_query))}

\* status code after which the handler leaves the approve branch without returning
NextAfterApproveFallThrough(status_code) ==
    IF status_code = 200 THEN "returned" ELSE "lookup"

\* lines 330-335: both branches of the approve block return
NextAfterApprove(status_code) == "returned"

LamStart ==
    /\ cache = <<>>
    /\ cache_table \in BOOLEAN
    /\ request = NoRequest
    /\ l_pc = "returned"
    /\ similarity_examples = <<>>
    /\ cached_sql = None
    /\ l_steps = {}
    /\ l_status = 0

LamInit == LamStart /\ GuardIdle /\ RunIdle /\ NormIdle /\ SchemaIdle /\ ConnIdle /\ OrchIdle /\ CacheIdle /\ ExtractIdle

\* a new invocation; validate_input rejects a malformed event with 400
LambdaInvoke ==
    /\ l_pc = "returned"
    /\ \/ /\ \E r \in Requests : request' = r
          /\ l_pc' = "approve"
          /\ l_status' = 0
       \/ /\ request' = NoRequest
          /\ l_pc' = "returned"
          /\ l_status' = 400
    /\ l_steps' = {}
    /\ similarity_examples' = <<>>
    /\ cached_sql' = None
    /\ UNCHANGED <<cache, cache_table>>
    /\ UNCHANGED nonLamVars

\* lines 323-338: store in cache if SQL is approved
LambdaApprove ==
    /\ l_pc = "approve"
    /\ IF Truthy(request.question_query_map)
       THEN /\ l_steps' = l_steps \cup {"write_to_cache"}
            /\ \/ /\ Len(cache) < MaxCacheRows
                  /\ cache' = Append(cache, IngestRow(request.question_query_map))
                  /\ cache_table' = TRUE
                  /\ l_status' = 200
                  /\ l_pc' = NextAfterApprove(200)
               \/ /\ cache' = cache
                  /\ cache_table' \in {cache_table, TRUE}
                  /\ l_status' = 500
                  /\ l_pc' = NextAfterApprove(500)
       ELSE /\ l_pc' = "lookup"
            /\ UNCHANGED <<cache, cache_table, l_steps, l_status>>
    /\ UNCHANGED <<request, similarity_examples, cached_sql>>
    /\ UNCHANGED nonLamVars

\* lines 340-362 and get_cached_query
LambdaLookup ==
    /\ l_pc = "lookup"
    /\ l_steps' = l_steps \cup {"lookup"}
    /\ \/ \* psycopg2.connect or the table check failed: return None
          /\ similarity_examples' = <<>>
          /\ cached_sql' = None
          /\ cache_table' = cache_table
          /\ l_pc' = "schema"
          /\ l_status' = l_status
       \/ \* get_embedding raised: SQLGenerationError, caught at the end of the handler
          /\ similarity_examples' = <<>>
          /\ cached_sql' = None
          /\ cache_table' = TRUE
          /\ l_pc' = "returned"
          /\ l_status' = 500
       \/ \E ex \in similarity_search(cache, Emb(request.user_query)) \cup {<<>>} :
             /\ similarity_examples' = ex
             /\ cached_sql' = CachedQueryFor(ex, request.cache_thresh)
             /\ cache_table' = TRUE
             /\ l_pc' = IF cached_sql' # None /\ cached_sql' # <<>>
                        THEN "cached_exec" ELSE "schema"
             /\ l_status' = l_status
    /\ UNCHANGED <<cache, request>>
    /\ UNCHANGED nonLamVars

\* lines 364-418: run the cached SQL and return
LambdaCachedExec ==
    /\ l_pc = "cached_exec"
    /\ l_steps' = l_steps \cup {"execute"}
    /\ l_status' \in {200, 500}
    /\ l_pc' = "returned"
    /\ UNCHANGED <<cache, cache_table, request, similarity_examples, cached_sql>>
    /\ UNCHANGED nonLamVars

\* lines 421-483: schema extraction; an empty schema or an exception returns 500
LambdaSchema ==
    /\ l_pc = "schema"
    /\ l_steps' = l_steps \cup {"schema"}
    /\ \/ /\ l_pc' = "intent"
          /\ l_status' = l_status
       \/ /\ l_pc' = "returned"
          /\ l_status' = 500
    /\ UNCHANGED <<cache, cache_table, request, similarity_examples, cached_sql>>
    /\ UNCHANGED nonLamVars

\* lines 485-500: question intent. The call at line 488 passes model_region,
\* which question_intent (orchestrator_db.py line 548) does not accept: the
\* TypeError is answered at line 500, and lines 502-580 are not reached
LambdaIntent ==
    /\ l_pc = "intent"
    /\ l_steps' = l_steps \cup {"intent"}
    /\ l_pc' = "returned"
    /\ l_status' = 500
    /\ UNCHANGED <<cache, cache_table, request, similarity_examples, cached_sql>>
    /\ UNCHANGED nonLamVars

LamNext ==
    \/ LambdaInvoke
    \/ LambdaApprove
    \/ LambdaLookup
    \/ LambdaCachedExec
    \/ LambdaSchema
    \/ LambdaIntent

SpecLambda == LamInit /\ [][LamNext]_vars

(***************************************************************************)
(* Properties of the semantic cache and of lambda_handler                  *)
(***************************************************************************)
RowSimilarity(i, q) == Similarity(cache[i].question_embedding, Emb(q))

\* C6: get_cached_query returns a cached SQL only if the similarity of the single
\* nearest stored entry is >= the supplied threshold, and no match otherwise (an
\* empty cache included); hence, for a fixed cache and question, a miss at
\* threshold t is a miss at every threshold t' > t.
C6_LookupRespectsThreshold ==
    "lookup" \in l_steps =>
        /\ cached_sql # None =>
             \E i \in 1..Len(cache) :
                /\ cached_sql = cache[i].query
                /\ \A k \in 1..Len(cache) :
                      RowSimilarity(k, request.user_query)
                        <= RowSimilarity(i, request.user_query)
                /\ RowSimilarity(i, request.user_query) >= request.cache_thresh
        /\ (\A i \in 1..Len(cache) :
               RowSimilarity(i, request.user_query) < request.cache_thresh)
             => cached_sql = None
        /\ \A t1 \in Thresholds :
              GetCachedQueryResults(cache, request.user_query, t1) = {None} =>
                 \A t2 \in {t \in Thresholds : t > t1} :
                    GetCachedQueryResults(cache, request.user_query, t2) = {None}

\* C6 witness: a hit whose similarity equals the threshold, with a second, farther
\* row in the cache
C6_Witness ==
    /\ "lookup" \in l_steps
    /\ Len(cache) = 2
    /\ cached_sql # None
    /\ similarity_examples # <<>>
    /\ similarity_examples[1].similarity = request.cache_thresh
    /\ \E k \in 1..Len(cache) :
          RowSimilarity(k, request.user_query) < request.cache_thresh

\* the invocation carries an approved pair
ApproveRequest == Truthy(request.question_query_map)

\* C7: a cache row is inserted only by an invocation whose request carries a
\* non-empty question_query_map, and it is that pair's row; an invocation that
\* looks up, generates or executes never changes the rows; an approve invocation
\* returns right after the write, with no lookup, schema extraction, generation
\* or execution.
C7_CacheWrittenOnlyOnApprove ==
    /\ [][cache' # cache =>
             /\ l_pc = "approve"
             /\ ApproveRequest
             /\ cache' = Append(cache, IngestRow(request.question_query_map))
             /\ l_pc' = "returned"]_vars
    /\ [](ApproveRequest =>
             /\ l_pc \in {"approve", "returned"}
             /\ l_steps \subseteq {"write_to_cache"})
    /\ []((l_steps \cap {"lookup", "schema", "intent", "generate", "execute"} # {})
             => ~ApproveRequest)

\* C7 witness: an approve invocation wrote its row into a non-empty cache and
\* returned 200 having done nothing else
C7_Witness ==
    /\ l_pc = "returned"
    /\ ApproveRequest
    /\ l_status = 200
    /\ l_steps = {"write_to_cache"}
    /\ Len(cache) = 2
    /\ cache[2] = IngestRow(request.question_query_map)

(***************************************************************************)
(* run_normalization_process (postprocessor.py)                            *)
(***************************************************************************)
\* a DataFrame: its column labels and its rows of cells
DF(columns, rows) == [columns |-> columns, rows |-> rows]

\* pd.DataFrame()
EmptyDataFrame == DF(<<>>, <<>>)

\* cells of a result: Python type and value
NoneCell   == [t |-> "NoneType", v |-> "None"]
IntCell(v) == [t |-> "int", v |-> v]
BoolCell(v) == [t |-> "bool", v |-> v]
StrCell(v) == [t |-> "str", v |-> v]

\* Python `cell == 0`: numbers and booleans compare by value, False == 0
EqualsZero(c) ==
    \/ c.t = "int" /\ c.v = "0"
    \/ c.t = "bool" /\ c.v = "False"

\* `x in result.values`: some cell of some row compares equal to x
NoneInValues(df) ==
    \E i \in 1..Len(df.rows) : \E j \in 1..Len(df.rows[i]) : df.rows[i][j] = NoneCell
ZeroInValues(df) ==
    \E i \in 1..Len(df.rows) : \E j \in 1..Len(df.rows[i]) : EqualsZero(df.rows[i][j])

\* line 250: the result is empty, or a single row holding None or 0
NeedsNormalization(df) ==
    \/ Len(df.rows) = 0
    \/ Len(df.rows) = 1 /\ (NoneInValues(df) \/ ZeroInValues(df))

\* results handed to run_normalization_process
GivenResults ==
    { DF(<<"n">>, <<>>),
      DF(<<"n">>, << <<NoneCell>> >>),
      DF(<<"n">>, << <<IntCell("0")>> >>),
      DF(<<"n">>, << <<BoolCell("False")>> >>),
      DF(<<"n">>, << <<IntCell("7")>> >>),
      DF(<<"n">>, << <<StrCell("x")>> >>),
      DF(<<"n">>, << <<NoneCell>>, <<IntCell("0")>> >>) }

\* statements handed to run_normalization_process
nsqlNoFilter == <<"S","E","L","E","C","T"," ","n"," ","F","R","O","M"," ","t">>
nsqlCity     == nsqlNoFilter \o
                <<" ","W","H","E","R","E"," ","c"," ","="," ","'","a","b","'">>
nsqlUnknown  == nsqlNoFilter \o
                <<" ","W","H","E","R","E"," ","z","=","'","a","b","'">>
nsqlTwo      == nsqlCity \o
                <<" ","A","N","D"," ","d","=","'","x","y","'">>

NormStatements == {nsqlNoFilter, nsqlCity, nsqlUnknown, nsqlTwo}

\* regular-expression classes \w and \s
WordChars == {Lowers[i] : i \in 1..Len(Lowers)} \cup {Uppers[i] : i \in 1..Len(Uppers)}
             \cup {Digits[i] : i \in 1..Len(Digits)} \cup {"_"}
SpaceChars == {" ", "\t", "\n", "\r", "\f"}

\* first position >= i that is past the text or holds no \s character
SkipSpace(s, i) ==
    CHOOSE k \in i..(Len(s) + 1) :
        /\ (k <= Len(s) => s[k] \notin SpaceChars)
        /\ \A m \in i..(k - 1) : s[m] \in SpaceChars

\* pattern3 = (\b\w+\b)\s*=\s*'([^']+)' tried at position i: the match, or <<>>
Pattern3At(s, i) ==
    IF ~(s[i] \in WordChars /\ (i = 1 \/ s[i - 1] \notin WordChars)) THEN <<>>
    ELSE LET e  == CHOOSE k \in i..Len(s) :
                      /\ \A m \in i..k : s[m] \in WordChars
                      /\ (k = Len(s) \/ s[k + 1] \notin WordChars)
             eq == SkipSpace(s, e + 1)
         IN  IF eq > Len(s) \/ s[eq] # "=" THEN <<>>
             ELSE LET q1 == SkipSpace(s, eq + 1)
                  IN  IF q1 > Len(s) \/ s[q1] # "'" THEN <<>>
                      ELSE LET closing == {k \in (q1 + 1)..Len(s) : s[k] = "'"}
                           IN  IF closing = {} THEN <<>>
                               ELSE LET q2 == CHOOSE k \in closing :
                                                 \A m \in closing : k <= m
                                    IN  IF q2 = q1 + 1 THEN <<>>
                                        ELSE << [col |-> SubSeq(s, i, e),
                                                 val |-> SubSeq(s, q1 + 1, q2 - 1),
                                                 end |-> q2] >>

\* re.findall(pattern3, sql): leftmost matches, scanning on after each match
RECURSIVE findall3(_, _)
findall3(s, i) ==
    IF i > Len(s) THEN <<>>
    ELSE LET m == Pattern3At(s, i)
         IN  IF m = <<>> THEN findall3(s, i + 1)
             ELSE <<[col |-> m[1].col, val |-> m[1].val]>> \o findall3(s, m[1].end + 1)

\* schema data frames: one row per column of every table of schema_info;
\* <<>> is the empty schema_info dictionary
SchemaRow(table, col) == [table_name |-> table, col_name |-> col]
Schemas ==
    { <<>>,
      << SchemaRow("t", <<"n">>), SchemaRow("t", <<"c">>) >>,
      << SchemaRow("t", <<"n">>), SchemaRow("t", <<"c">>), SchemaRow("t", <<"d">>) >> }

\* lines 135-141: for each pattern3 match, every table that has the column
RECURSIVE TabCompsOf(_, _)
TabCompsOf(matches, schema) ==
    IF matches = <<>> THEN <<>>
    ELSE LET m == Head(matches)
             having == SelectSeq(schema, LAMBDA r : r.col_name = m.col)
         IN  [k \in 1..Len(having) |->
                 [table |-> having[k].table_name, col |-> m.col, val |-> m.val]]
             \o TabCompsOf(Tail(matches), schema)

\* lines 146-156: drop repeated components, keeping the first
RECURSIVE Deduplicate(_)
Deduplicate(comps) ==
    IF comps = <<>> THEN <<>>
    ELSE LET rest == Deduplicate(SubSeq(comps, 1, Len(comps) - 1))
             last == comps[Len(comps)]
         IN  IF \E i \in 1..Len(rest) : rest[i] = last THEN rest
             ELSE Append(rest, last)

\* extract_tab_components for statements without qualified or wrapped columns
extract_tab_components(s, schema) == Deduplicate(TabCompsOf(findall3(s, 1), schema))

\* escape_sql_string: the replacements in dictionary order (the backspace entry
\* has no spelling here and no sample value holds one)
escape_sql_string(value) ==
    LET e1 == replace(value, <<"'">>, <<"'", "'">>)
        e2 == replace(e1, <<"\\">>, <<"\\", "\\">>)
        e3 == replace(e2, <<"\n">>, <<"\\", "n">>)
        e4 == replace(e3, <<"\r">>, <<"\\", "r">>)
        e5 == replace(e4, <<"\t">>, <<"\\", "t">>)
        e6 == replace(e5, <<"\f">>, <<"\\", "f">>)
        e7 == replace(e6, <<"\"">>, <<"\"", "\"">>)
        e8 == replace(e7, <<"%">>, <<"\\", "%">>)
    IN  replace(e8, <<"_">>, <<"\\", "_">>)

\* SELECT DISTINCT(col) FROM table: the values of each filter column, in row order
DistinctValues(col) ==
    CASE col = <<"c">> -> << <<"a","_","b">>, <<"a","b","c">> >>
      [] col = <<"d">> -> << <<"x","y","z">> >>
      [] OTHER         -> <<>>

ScoreKeys == {<<<<"c">>, 1>>, <<<<"c">>, 2>>, <<<<"d">>, 1>>}
ScoreLevels == {60, 80, 81, 95}

\* line 190: out[1] > 80
MatchThreshold == 80

AboveThreshold(score) == score > MatchThreshold

\* process.extract(filter_val, choices, scorer): (value, score) pairs, best first,
\* equal scores in the order of the choices
RECURSIVE SortByScore(_)
SortByScore(pairs) ==
    IF pairs = <<>> THEN <<>>
    ELSE LET best == CHOOSE i \in 1..Len(pairs) :
                        /\ \A j \in 1..Len(pairs) : pairs[j].score <= pairs[i].score
                        /\ \A j \in 1..(i - 1) : pairs[j].score < pairs[i].score
         IN  <<pairs[best]>> \o
             SortByScore(SubSeq(pairs, 1, best - 1) \o SubSeq(pairs, best + 1, Len(pairs)))

extract(col, score) ==
    LET choices == DistinctValues(col)
    IN  SortByScore([k \in 1..Len(choices) |->
                        [value |-> choices[k], score |-> score[<<col, k>>]]])

\* line 190: top_matches
top_matches(col, score) ==
    SelectSeq(extract(col, score), LAMBDA out : AboveThreshold(out.score))

NormStart0 == [filter_vals |-> <<>>, top_vals |-> <<>>, scores |-> <<>>,
               value_replacements |-> <<>>]

\* normalize_values, lines 175-221: the loop over tab_comps, from component k on
RECURSIVE normalize_loop(_, _, _, _, _)
normalize_loop(tab_comps, k, sql_new, acc, score) ==
    IF k > Len(tab_comps) THEN acc @@ [sql_new |-> sql_new]
    ELSE LET filter_val == tab_comps[k].val
             top == top_matches(tab_comps[k].col, score)
         IN  IF top = <<>> THEN normalize_loop(tab_comps, k + 1, sql_new, acc, score)
             ELSE LET filter_act_escaped == escape_sql_string(top[1].value)
                  IN  normalize_loop(tab_comps, k + 1,
                          replace(sql_new, filter_val, filter_act_escaped),
                          [filter_vals |-> Append(acc.filter_vals, filter_val),
                           top_vals |-> Append(acc.top_vals, <<top[1].value>>),
                           scores |-> Append(acc.scores, top[1].score),
                           value_replacements |->
                               Append(acc.value_replacements,
                                      [old |-> filter_val, new |-> filter_act_escaped])],
                          score)

\* lines 224-229: the numbered list, or None when nothing was replaced
ReplacementMessage(value_replacements) ==
    IF value_replacements # <<>>
    THEN [kind |-> "list", items |-> value_replacements]
    ELSE [kind |-> "None", items |-> <<>>]

\* replacement_message = '' (line 249)
NoReplacementMessage == [kind |-> "str", items |-> <<>>]

\* normalize_values: filter_vals, top_vals, scores, sql_new, replacement_message
normalize_values(tab_comps, s, score) ==
    LET out == normalize_loop(tab_comps, 1, s, NormStart0, score)
    IN  [filter_vals |-> out.filter_vals, top_vals |-> out.top_vals,
         scores |-> out.scores, sql_new |-> out.sql_new,
         replacement_message |-> ReplacementMessage(out.value_replacements)]

Suggestion(text) == [text |-> text, filter_val |-> <<>>, top_vals |-> <<>>]

\* line 258
NoFilterSuggestion ==
    Suggestion("Normalization could not be performed as no filter conditions were found in the query.")

\* line 288
NoSimilarSuggestion ==
    Suggestion("No similar values found in the database. Try rephrasing the query with different entities")

\* line 279: the f-string with its two lists
NoRecordsSuggestion(filter_val, top_vals) ==
    [text |-> "No records exist even with suggested replacements.",
     filter_val |-> filter_val, top_vals |-> top_vals]

\* line 281
RephraseSuggestion ==
    Suggestion("No records exist. Try to rephrase the query with different entities")

\* return sql, result, error, suggestion, replacement_message
NormReturn(s, df, error, suggestion, replacement_message) ==
    [sql |-> s, result |-> df, error |-> error, suggestion |-> suggestion,
     replacement_message |-> replacement_message]

NoNorm == [filter_vals |-> <<>>, top_vals |-> <<>>, scores |-> <<>>, sql_new |-> <<>>,
           replacement_message |-> NoReplacementMessage]
NoNormReturn == NormReturn(<<>>, EmptyDataFrame, "unset", Suggestion("unset"),
                           NoReplacementMessage)

\* [df, error_msg] of get_sql_result / get_sql_from_athena for the rewritten statement
ReexecResults ==
    { [df |-> DF(<<"n">>, << <<IntCell("3")>> >>), error_msg |-> ""],
      [df |-> DF(<<"n">>, <<>>), error_msg |-> ""],
      [df |-> EmptyDataFrame, error_msg |-> TimeoutMsg] }
    \cup {[df |-> EmptyDataFrame, error_msg |-> str(e)] : e \in BackendErrors}

NormStart ==
    /\ n_sql \in NormStatements
    /\ n_result \in GivenResults
    /\ n_schema \in Schemas
    /\ n_score \in [ScoreKeys -> ScoreLevels]
    /\ n_reexec = [df |-> EmptyDataFrame, error_msg |-> "unset"]
    /\ n_pc = "start"
    /\ n_tab_comps = <<>>
    /\ n_norm = NoNorm
    /\ n_executed = <<>>
    /\ n_ret = NoNormReturn

NormInit == NormStart /\ GuardIdle /\ RunIdle /\ LamIdle /\ SchemaIdle /\ ConnIdle /\ OrchIdle /\ CacheIdle /\ ExtractIdle

\* lines 247-259: the shape test, the schema data frame and the extraction
NormCheck ==
    /\ n_pc = "start"
    /\ IF ~NeedsNormalization(n_result)
       THEN /\ n_ret' = NormReturn(n_sql, n_result, "", Suggestion(""), NoReplacementMessage)
            /\ n_pc' = "returned"
            /\ n_tab_comps' = n_tab_comps
       ELSE IF n_schema = <<>>
       THEN \* convert_schema_dict_to_df line 33: `schema` was never bound
            /\ n_pc' = "raised"
            /\ UNCHANGED <<n_ret, n_tab_comps>>
       ELSE /\ n_tab_comps' = extract_tab_components(n_sql, n_schema)
            /\ IF n_tab_comps' = <<>>
               THEN /\ n_ret' = NormReturn(n_sql, n_result, "", NoFilterSuggestion,
                                           NoReplacementMessage)
                    /\ n_pc' = "returned"
               ELSE /\ n_ret' = n_ret
                    /\ n_pc' = "normalize"
    /\ UNCHANGED <<n_sql, n_result, n_schema, n_score, n_reexec, n_norm, n_executed>>
    /\ UNCHANGED nonNormVars

\* lines 261-264 and 287-289: normalize_values, and the return when nothing matched
NormValues ==
    /\ n_pc = "normalize"
    /\ n_norm' = normalize_values(n_tab_comps, n_sql, n_score)
    /\ IF Len(n_norm'.scores) > 0
       THEN /\ n_pc' = "reexec"
            /\ n_ret' = n_ret
       ELSE /\ n_pc' = "returned"
            /\ n_ret' = NormReturn(n_sql, n_result, "", NoSimilarSuggestion,
                                   n_norm'.replacement_message)
    /\ UNCHANGED <<n_sql, n_result, n_schema, n_score, n_reexec, n_tab_comps, n_executed>>
    /\ UNCHANGED nonNormVars

\* lines 266-282: execute the rewritten statement and decide what to return
NormReexec ==
    /\ n_pc = "reexec"
    /\ n_executed' = Append(n_executed, n_norm.sql_new)
    /\ \E gen_text \in ReexecResults :
          /\ n_reexec' = gen_text
          /\ IF Len(gen_text.df.rows) > 0
             THEN n_ret' = NormReturn(n_norm.sql_new, gen_text.df, "", Suggestion(""),
                                      n_norm.replacement_message)
             ELSE n_ret' = NormReturn(n_sql, EmptyDataFrame, "",
                                      IF Len(n_norm.top_vals) > 0
                                      THEN NoRecordsSuggestion(n_norm.filter_vals,
                                                               n_norm.top_vals)
                                      ELSE RephraseSuggestion,
                                      n_norm.replacement_message)
    /\ n_pc' = "returned"
    /\ UNCHANGED <<n_sql, n_result, n_schema, n_score, n_tab_comps, n_norm>>
    /\ UNCHANGED nonNormVars

NormNext ==
    \/ NormCheck
    \/ NormValues
    \/ NormReexec

SpecNorm == NormInit /\ [][NormNext]_vars

(***************************************************************************)
(* Properties of run_normalization_process                                 *)
(***************************************************************************)
\* no filter literal can be extracted from the statement under the schema
NoLiteralExtracted == extract_tab_components(n_sql, n_schema) = <<>>

\* the rewritten statement was executed and answered without rows
ReexecutedEmpty == n_executed # <<>> /\ Len(n_reexec.df.rows) = 0

\* C11: run_normalization_process returns its input SQL and its input result
\* unchanged and re-executes nothing (i) when the result has two or more rows or
\* one row without a null or zero cell, and (ii) when the result is empty or one
\* null/zero row and no filter literal is extracted, then with the fixed
\* suggestion text.
C11_UnchangedWithoutNormalization ==
    (n_pc # "start" /\ (~NeedsNormalization(n_result) \/ NoLiteralExtracted)) =>
        /\ n_pc = "returned"
        /\ n_ret.sql = n_sql
        /\ n_ret.result = n_result
        /\ n_ret.error = ""
        /\ n_executed = <<>>
        /\ n_ret.suggestion = IF NeedsNormalization(n_result)
                              THEN NoFilterSuggestion ELSE Suggestion("")

\* C12: when the re-executed rewritten SQL yields no rows the original SQL and the
\* rows of the given result are returned with a suggestion naming the attempted
\* substitutions; the rewritten SQL is returned only with the non-empty result it
\* produced.
C12_FallsBackToOriginal ==
    (n_pc = "returned" /\ n_executed # <<>>) =>
        IF ReexecutedEmpty
        THEN /\ n_ret.sql = n_sql
             /\ n_ret.result.rows = n_result.rows
             /\ n_ret.suggestion = NoRecordsSuggestion(n_norm.filter_vals, n_norm.top_vals)
        ELSE /\ n_ret.sql = n_norm.sql_new
             /\ n_ret.result = n_reexec.df
             /\ Len(n_ret.result.rows) > 0

\* C13: a re-execution that failed (non-empty error from the guard) is reported in
\* the returned error, never as "no records exist" with an empty error.
C13_FailedReexecutionReported ==
    (n_pc = "returned" /\ n_executed # <<>> /\ n_reexec.error_msg # "") =>
        /\ n_ret.error # ""
        /\ n_ret.suggestion.text # "No records exist even with suggested replacements."

\* the candidate that wins for a component: best score above the threshold
BestValues(comp) ==
    LET choices == DistinctValues(comp.col)
    IN  {choices[k] : k \in {i \in 1..Len(choices) :
            /\ n_score[<<comp.col, i>>] > MatchThreshold
            /\ \A j \in 1..Len(choices) :
                  n_score[<<comp.col, j>>] <= n_score[<<comp.col, i>>]}}

\* C14: a literal is substituted only by a distinct column value whose score is
\* strictly greater than 80, the highest-scoring one; when every candidate of
\* every literal scores 80 or less the SQL is unchanged, no replacement is logged
\* and nothing is re-executed.
C14_ReplacesOnlyAboveThreshold ==
    n_pc \in {"reexec", "returned"} /\ n_tab_comps # <<>> =>
        /\ \A r \in 1..Len(n_norm.replacement_message.items) :
              \E k \in 1..Len(n_tab_comps) :
                 /\ n_tab_comps[k].val = n_norm.replacement_message.items[r].old
                 /\ n_norm.replacement_message.items[r].new \in BestValues(n_tab_comps[k])
        /\ (\A k \in 1..Len(n_tab_comps) : BestValues(n_tab_comps[k]) = {}) =>
              /\ n_norm.sql_new = n_sql
              /\ n_norm.replacement_message.kind = "None"
              /\ n_executed = <<>>
              /\ n_pc = "returned" => n_ret.sql = n_sql

(***************************************************************************)
(* Schema phase of lambda_handler and DatabaseSchemaExtractor              *)
(***************************************************************************)
Tables == {"t1", "t2"}

\* insertion order of schema_info
TableOrder == <<"t1", "t2">>

SchemaHeader == <<"Database Schema:", "\n">>

\* get_schema_string lines 399-429: one block per table, as tokens
RECURSIVE TableBlocks(_, _)
TableBlocks(info, k) ==
    IF k > Len(TableOrder) THEN <<>>
    ELSE (IF TableOrder[k] \in info
          THEN <<"*****TABLE", TableOrder[k], "starts*****", "\n",
                 "*****TABLE", TableOrder[k], "ends*****", "\n", "\n">>
          ELSE <<>>)
         \o TableBlocks(info, k + 1)

\* get_schema_string: an empty schema_info gives the bare header (lines 393-397)
get_schema_string(info) ==
    IF info = {} THEN SchemaHeader ELSE SchemaHeader \o TableBlocks(info, 1)

\* metadata of a request: is_meta, and what the metadata sheets hold
NoMetadata == [is_meta |-> FALSE, sheet_readable |-> FALSE, sheet_tables |-> {},
               columns_ok |-> FALSE]
Metadatas ==
    {NoMetadata}
    \cup {[is_meta |-> TRUE, sheet_readable |-> FALSE, sheet_tables |-> {},
           columns_ok |-> FALSE]}
    \cup {[is_meta |-> TRUE, sheet_readable |-> TRUE, sheet_tables |-> S,
           columns_ok |-> b] : S \in SUBSET Tables, b \in BOOLEAN}

NoTabMeta == [kind |-> "None", tables |-> {}]
TabMeta(S) == [kind |-> "list", tables |-> S]

\* _extract_schema_from_db lines 104-117: line 109 reads the sheet through the
\* name s3, which get_schema_str.py never binds; the NameError is caught at
\* line 113 and tab_meta_tables is None
tab_meta_tables_db(metadata) == NoTabMeta

\* _extract_schema_from_s3 lines 217-272: None unless both sheets are fetched and
\* the table sheet is read
tab_meta_tables_s3(metadata) ==
    IF metadata.is_meta /\ metadata.sheet_readable /\ metadata.columns_ok
    THEN TabMeta(metadata.sheet_tables)
    ELSE NoTabMeta

\* lines 123-127: `if tab_meta_tables:` intersects, otherwise all tables
tables_db(all_tables, tmt) ==
    IF tmt.kind = "list" /\ tmt.tables # {} THEN all_tables \cap tmt.tables
    ELSE all_tables

\* lines 276-345: a CSV is skipped when filtered out or when reading it fails
tables_s3(csv_tables, tmt, unreadable) ==
    {t \in csv_tables : (tmt.kind = "list" => t \in tmt.tables) /\ t \notin unreadable}

\* schema_info after an extraction that did not raise
ExtractedSchemas(db_type, backend, metadata) ==
    IF db_type = "s3"
    THEN {tables_s3(backend, tab_meta_tables_s3(metadata), bad) : bad \in SUBSET backend}
    ELSE {tables_db(backend, tab_meta_tables_db(metadata))}

\* initialize_schema_extractor: ({}, "", extractor) on a failure, otherwise the
\* schema_info and its schema string
InitFailure == [ok |-> FALSE, schema_info |-> {}, schema_str |-> <<>>]
InitializeResults(db_type, backend, metadata) ==
    {InitFailure}
    \cup {[ok |-> TRUE, schema_info |-> T, schema_str |-> get_schema_string(T)] :
             T \in ExtractedSchemas(db_type, backend, metadata)}

\* extract_schema(metadata, "existing", key), lines 68-88: the object store loads
\* the persisted schema_info or extracts again, a database always extracts
ReinitInfos(db_type, backend, metadata, store) ==
    IF db_type = "s3"
    THEN (IF store.info.present THEN {store.info.tables} ELSE {})
         \cup ExtractedSchemas(db_type, backend, metadata)
    ELSE ExtractedSchemas(db_type, backend, metadata)

Absent == [present |-> FALSE, body |-> <<>>]
AbsentInfo == [present |-> FALSE, tables |-> {}]
NotRetrieved == [ok |-> FALSE, body |-> <<>>]

\* the persisted text taken as it is
decode_verbatim(body) == body

\* line 443: response['Body'].read().decode('utf-8').strip()
decode_strip(body) == strip(body)

\* a session value that always writes
WritesArtifactAlways(session) == TRUE

\* line 470: if session == "new"
WritesArtifact(session) == session = "new"

Sessions == {"new", "existing", "other"}

SchemaStart ==
    /\ s_db_type \in {"postgresql", "s3"}
    /\ s_backend \in SUBSET Tables
    /\ s_store = [str |-> Absent, info |-> AbsentInfo]
    /\ s_session = "none"
    /\ s_metadata = NoMetadata
    /\ s_pc = "returned"
    /\ s_schema_str = <<>>
    /\ s_schema_info = {}
    /\ s_retrieved = NotRetrieved
    /\ s_reinit = "none"
    /\ s_extractions = <<>>
    /\ s_puts = <<>>
    /\ s_status = 0

SchemaInit == SchemaStart /\ GuardIdle /\ RunIdle /\ LamIdle /\ NormIdle /\ ConnIdle /\ OrchIdle /\ CacheIdle /\ ExtractIdle

\* an invocation that reached "Extract schema" (line 421)
SchemaInvoke ==
    /\ s_pc = "returned"
    /\ s_session' \in Sessions
    /\ s_metadata' \in Metadatas
    /\ s_pc' = "extract"
    /\ s_schema_str' = <<>>
    /\ s_schema_info' = {}
    /\ s_retrieved' = NotRetrieved
    /\ s_reinit' = "none"
    /\ s_extractions' = <<>>
    /\ s_puts' = <<>>
    /\ s_status' = 0
    /\ UNCHANGED <<s_db_type, s_backend, s_store>>
    /\ UNCHANGED nonSchemaVars

\* lines 435-437: session "new" extracts
SchemaNew ==
    /\ s_pc = "extract"
    /\ s_session = "new"
    /\ \E out \in InitializeResults(s_db_type, s_backend, s_metadata) :
          /\ s_schema_info' = out.schema_info
          /\ s_schema_str' = out.schema_str
          /\ s_extractions' = Append(s_extractions, out)
    /\ s_pc' = "decide"
    /\ UNCHANGED <<s_db_type, s_backend, s_store, s_session, s_metadata,
                   s_retrieved, s_reinit, s_puts, s_status>>
    /\ UNCHANGED nonSchemaVars

\* lines 438-461: session "existing" reads the persisted text
SchemaExisting ==
    /\ s_pc = "extract"
    /\ s_session = "existing"
    /\ \/ \* get_object raised (line 457): full extraction
          /\ s_retrieved' = NotRetrieved
          /\ s_reinit' = s_reinit
          /\ \E out \in InitializeResults(s_db_type, s_backend, s_metadata) :
                /\ s_schema_info' = out.schema_info
                /\ s_schema_str' = out.schema_str
                /\ s_extractions' = Append(s_extractions, out)
       \/ \* text read, extractor connected and extract_schema returned
          /\ s_store.str.present
          /\ s_retrieved' = [ok |-> TRUE, body |-> s_store.str.body]
          /\ s_reinit' = "ok"
          /\ s_schema_str' = decode_strip(s_store.str.body)
          /\ s_schema_info' \in ReinitInfos(s_db_type, s_backend, s_metadata, s_store)
          /\ s_extractions' = s_extractions
       \/ \* text read, connect or extract_schema raised (line 453): full extraction
          /\ s_store.str.present
          /\ s_retrieved' = [ok |-> TRUE, body |-> s_store.str.body]
          /\ s_reinit' = "failed"
          /\ \E out \in InitializeResults(s_db_type, s_backend, s_metadata) :
                /\ s_schema_info' = out.schema_info
                /\ s_schema_str' = out.schema_str
                /\ s_extractions' = Append(s_extractions, out)
    /\ s_pc' = "decide"
    /\ UNCHANGED <<s_db_type, s_backend, s_store, s_session, s_metadata, s_puts,
                   s_status>>
    /\ UNCHANGED nonSchemaVars

\* lines 462-464: any other session value
SchemaOther ==
    /\ s_pc = "extract"
    /\ s_session \notin {"new", "existing"}
    /\ s_schema_str' = <<>>
    /\ s_pc' = "decide"
    /\ UNCHANGED <<s_db_type, s_backend, s_store, s_session, s_metadata,
                   s_schema_info, s_retrieved, s_reinit, s_extractions, s_puts,
                   s_status>>
    /\ UNCHANGED nonSchemaVars

PutStr(text) == [key |-> "schema_str_file_key", body |-> text]
PutInfo(info) == [key |-> "schema_info_file_key", body |-> info]

\* lines 466-483: the emptiness test and the writes of a new session
SchemaDecide ==
    /\ s_pc = "decide"
    /\ IF s_schema_str = <<>>
       THEN /\ s_status' = 500
            /\ s_pc' = "returned"
            /\ UNCHANGED <<s_store, s_puts>>
       ELSE IF ~WritesArtifact(s_session)
       THEN /\ s_pc' = "intent"
            /\ UNCHANGED <<s_store, s_puts, s_status>>
       ELSE \/ \* the first put_object raised (line 481)
               /\ s_status' = 500
               /\ s_pc' = "returned"
               /\ UNCHANGED <<s_store, s_puts>>
            \/ /\ s_db_type # "s3"
               /\ s_store' = [s_store EXCEPT !.str = [present |-> TRUE, body |-> s_schema_str]]
               /\ s_puts' = Append(s_puts, PutStr(s_schema_str))
               /\ s_pc' = "intent"
               /\ s_status' = s_status
            \/ /\ s_db_type = "s3"
               /\ s_store' = [str |-> [present |-> TRUE, body |-> s_schema_str],
                              info |-> [present |-> TRUE, tables |-> s_schema_info]]
               /\ s_puts' = s_puts \o <<PutStr(s_schema_str), PutInfo(s_schema_info)>>
               /\ s_pc' = "intent"
               /\ s_status' = s_status
            \/ \* the second put_object raised
               /\ s_db_type = "s3"
               /\ s_store' = [s_store EXCEPT !.str = [present |-> TRUE, body |-> s_schema_str]]
               /\ s_puts' = Append(s_puts, PutStr(s_schema_str))
               /\ s_pc' = "returned"
               /\ s_status' = 500
    /\ UNCHANGED <<s_db_type, s_backend, s_session, s_metadata, s_schema_str,
                   s_schema_info, s_retrieved, s_reinit, s_extractions>>
    /\ UNCHANGED nonSchemaVars

\* lines 485-500: the intent step with schema_str; the call of question_intent
\* raises TypeError (model_region) and the handler answers 500
SchemaProceed ==
    /\ s_pc = "intent"
    /\ s_pc' = "returned"
    /\ s_status' = 500
    /\ UNCHANGED <<s_db_type, s_backend, s_store, s_session, s_metadata,
                   s_schema_str, s_schema_info, s_retrieved, s_reinit,
                   s_extractions, s_puts>>
    /\ UNCHANGED nonSchemaVars

SchemaNext ==
    \/ SchemaInvoke
    \/ SchemaNew
    \/ SchemaExisting
    \/ SchemaOther
    \/ SchemaDecide
    \/ SchemaProceed

SpecSchema == SchemaInit /\ [][SchemaNext]_vars

(***************************************************************************)
(* Properties of the schema phase                                          *)
(***************************************************************************)
\* the last initialize_schema_extractor call of this invocation
LastExtraction == s_extractions[Len(s_extractions)]

\* an extraction of this invocation finished without raising and found no table
ZeroTablesExtracted ==
    /\ s_extractions # <<>>
    /\ LastExtraction.ok
    /\ LastExtraction.schema_info = {}

\* C15: when schema extraction finishes with zero tables lambda_handler returns
\* the schema-extraction error response, never proceeds to intent classification,
\* generation or execution, and persists no schema artifact.
C15_EmptySchemaIsError ==
    ZeroTablesExtracted =>
        /\ s_pc \in {"decide", "returned"}
        /\ s_puts = <<>>
        /\ s_pc = "returned" => s_status = 500

\* C16: with is_meta set, a table that the metadata sheet does not list never
\* appears in the extracted schema descriptor, for a database and for the object
\* store alike.
C16_MetadataNarrowsTables ==
    (s_metadata.is_meta /\ s_metadata.sheet_readable /\ s_extractions # <<>>
       /\ LastExtraction.ok) =>
        LastExtraction.schema_info \subseteq s_metadata.sheet_tables

PutsTo(key) == {i \in 1..Len(s_puts) : s_puts[i].key = key}

\* C18: the persisted schema artifact is written only by a "new" invocation that
\* obtained a non-empty schema text, at most once per artifact in that
\* invocation, and with that text; an "existing" invocation never writes it,
\* also after falling back to a full extraction.
C18_ArtifactWrittenOnlyByNewSession ==
    /\ [](s_puts # <<>> =>
             /\ s_session = "new"
             /\ s_schema_str # <<>>
             /\ Cardinality(PutsTo("schema_str_file_key")) = 1
             /\ Cardinality(PutsTo("schema_info_file_key")) <= 1
             /\ s_puts[1] = PutStr(s_schema_str))
    /\ [](s_session = "existing" => s_puts = <<>>)
    /\ [][s_store' # s_store =>
             /\ s_session = "new"
             /\ s_pc = "decide"
             /\ s_schema_str # <<>>
             /\ s_store'.str.body = s_schema_str]_vars

\* C18 witness: an "existing" invocation fell back to a full extraction whose text
\* differs from the persisted one, went on, and wrote nothing
C18_Witness ==
    /\ s_session = "existing"
    /\ s_pc = "intent"
    /\ s_extractions # <<>>
    /\ s_store.str.present
    /\ s_schema_str # s_store.str.body
    /\ s_schema_str # strip(s_store.str.body)
    /\ s_puts = <<>>

(***************************************************************************)
(* querybot lambda_handler: life of the adapter's backend connection       *)
(***************************************************************************)
\* filter_tables.py line 21: the message check_table_access answers with
DenialMessage ==
    <<"Y","o","u","r"," ","q","u","e","s","t","i","o","n"," ","r","e","q","u","i","r",
      "e","s"," ","a","c","c","e","s","s"," ","t","o"," ","c","e","r","t","a","i","n",
      " ","t","a","b","l","e","s"," ","w","h","i","c","h"," ","y","o","u"," ","d","o",
      "n","'","t"," ","h","a","v","e"," ","a","c","c","e","s","s"," ","t","o">>

\* generator.py lines 222-255: the first value generate_zeroshot returns is
\* the message of filter_tables when there is one (line 230-231), otherwise
\* the statement between the <sql> tags.  lambda_function.py line 145 passes
\* table_access=None for the object store, so no message can come back there
GeneratedSqls(db) ==
    {sqlSelectUpper} \cup (IF db = "s3" THEN {} ELSE {DenialMessage})

\* what Rectifier.correct answers with
CorrectedSqls == {sqlSelectUpper}

ConnStart ==
    /\ q_database \in Databases
    /\ q_session = "none"
    /\ q_pc = "returned"
    /\ q_conn = "none"
    /\ q_res = "unset"
    /\ q_status = 0
    /\ q_attempts \in 0..MaxAttempts
    /\ q_sql = <<>>
    /\ q_command = <<>>
    /\ q_result = [type |-> "unset"]
    /\ q_cnt = 0
    /\ q_events = <<>>
    /\ q_body_sql = <<>>

ConnInit == ConnStart /\ GuardIdle /\ RunIdle /\ LamIdle /\ NormIdle /\ SchemaIdle /\ OrchIdle /\ CacheIdle /\ ExtractIdle

\* sqlite3.connect / psycopg2.connect in the adapter's __init__; the object-store
\* adapter builds boto3 clients and holds no connection
OpensConnection(db) == db \in {"sqlite", "postgresql", "redshift"}

\* PostgreSQLHelper.__init__ and RedshiftHelper.__init__ log a failure of
\* conn.cursor() after closing the connection; SQLiteHelper.__init__ re-raises it
CursorFailureSwallowed(db) == db \in {"postgresql", "redshift"}

\* a return statement of lambda_handler: the handler closes nothing and calls
\* close_conn nowhere, so self.conn is in the state the adapter left it in
ConnReturn(status) ==
    /\ q_pc' = "returned"
    /\ q_status' = status

\* lines 67-110: validate_input, then read the request and locate the schema file
ConnInvoke ==
    /\ q_pc = "returned"
    /\ q_conn' = "none"
    /\ q_res' = "unset"
    /\ q_sql' = <<>>
    /\ q_command' = <<>>
    /\ q_result' = [type |-> "unset"]
    /\ q_cnt' = 0
    /\ q_events' = <<>>
    /\ q_body_sql' = <<>>
    /\ \/ /\ q_session' \in {"new", "existing"}
          /\ q_pc' = "init"
          /\ q_status' = 0
       \/ /\ q_session' = "none"
          /\ ConnReturn(400)
       \/ /\ q_session' \in {"new", "existing"}
          /\ ConnReturn(500)
    /\ UNCHANGED <<q_database, q_attempts>>
    /\ UNCHANGED nonConnVars

\* lines 112-131: SQLGeneratorBedrock(...) builds the adapter through
\* get_database_helper; a KeyError becomes ValueError, anything else
\* SQLGenerationError, both answered with 400
ConnInitGenerator ==
    /\ q_pc = "init"
    /\ \/ /\ q_conn' = q_conn
          /\ ConnReturn(400)
       \/ /\ OpensConnection(q_database)
          /\ \/ /\ q_conn' = "open"
                /\ q_pc' = "generate"
                /\ q_status' = q_status
             \/ /\ q_conn' = "closed"
                /\ IF CursorFailureSwallowed(q_database)
                   THEN q_pc' = "generate" /\ q_status' = q_status
                   ELSE ConnReturn(400)
       \/ /\ ~OpensConnection(q_database)
          /\ q_conn' = q_conn
          /\ q_pc' = "generate"
          /\ q_status' = q_status
    /\ UNCHANGED <<q_database, q_session, q_res, q_attempts, q_sql, q_command,
                   q_result, q_cnt, q_events, q_body_sql>>
    /\ UNCHANGED nonConnVars

\* lines 133-182: generate the statement and upload the schema text; every
\* exception becomes SQLGenerationError, answered with 400.  The handler does
\* not look at what the generator function returned as sql
ConnGenerate ==
    /\ q_pc = "generate"
    /\ \/ /\ q_sql' \in GeneratedSqls(q_database)
          /\ q_pc' = "execute"
          /\ q_status' = q_status
       \/ /\ q_sql' = q_sql
          /\ ConnReturn(400)
    /\ UNCHANGED <<q_database, q_session, q_conn, q_res, q_attempts, q_command,
                   q_result, q_cnt, q_events, q_body_sql>>
    /\ UNCHANGED nonConnVars

\* line 189: db_helper.run_sql(question, sql, schema_meta); run_sql begins
\* with _excute(command) (executor.py line 361), which sends the statement
\* when proceed_with_sql lets it through and answers with a fixed message
\* otherwise.  The table check of S3AthenaHelper.run_sql is in SpecRun
ConnExecute ==
    /\ q_pc = "execute"
    /\ q_command' = q_sql
    /\ q_cnt' = 0
    /\ \E res \in ExcuteResults(q_database, q_sql) :
          /\ q_result' = res
          /\ q_events' = <<ExcuteEvent("first", q_database, q_sql, res)>>
    /\ q_pc' = "loop"
    /\ UNCHANGED <<q_database, q_session, q_conn, q_res, q_status, q_attempts, q_sql,
                   q_body_sql>>
    /\ UNCHANGED nonConnVars

\* the while condition of run_sql (executor.py lines 365-370)
ConnLoopContinues ==
    /\ q_attempts > 0
    /\ isstr(q_result)
    /\ q_cnt < q_attempts

\* executor.py lines 371-375: one correction request and the execution of
\* its answer; an exception of correct() leaves run_sql and becomes
\* DatabaseError, answered with 503 (lambda_function.py lines 202-204, 221)
ConnRectify ==
    /\ q_pc = "loop"
    /\ ConnLoopContinues
    /\ q_cnt' = q_cnt + 1
    /\ \/ /\ q_events' = Append(q_events,
                Event("correct", "loop", q_command, <<>>,
                      [type |-> IF CorrectCallFits(q_database) THEN "raised"
                                ELSE "TypeError"]))
          /\ ConnReturn(503)
          /\ UNCHANGED <<q_command, q_result>>
       \/ /\ CorrectCallFits(q_database)
          /\ \E new \in CorrectedSqls :
             \E res \in ExcuteResults(q_database, new) :
                /\ q_command' = new
                /\ q_result' = res
                /\ q_events' = q_events \o
                     << Event("correct", "loop", q_command, <<>>, [type |-> "ok"]),
                        ExcuteEvent("loop", q_database, new, res) >>
          /\ q_pc' = "loop"
          /\ q_status' = q_status
    /\ UNCHANGED <<q_database, q_session, q_conn, q_res, q_attempts, q_sql, q_body_sql>>
    /\ UNCHANGED nonConnVars

\* lines 190-216: run_sql returned (result, command); the response carries
\* the statement as sql_query and status 200
ConnRespond ==
    /\ q_pc = "loop"
    /\ ~ConnLoopContinues
    /\ q_res' = IF isstr(q_result) THEN "str" ELSE "df"
    /\ q_body_sql' = q_command
    /\ ConnReturn(200)
    /\ UNCHANGED <<q_database, q_session, q_conn, q_attempts, q_sql, q_command,
                   q_result, q_cnt, q_events>>
    /\ UNCHANGED nonConnVars

ConnNext ==
    \/ ConnInvoke
    \/ ConnInitGenerator
    \/ ConnGenerate
    \/ ConnExecute
    \/ ConnRectify
    \/ ConnRespond

SpecConn == ConnInit /\ [][ConnNext]_vars

\* C19: every backend connection an adapter opened during an invocation is
\* closed when the invocation has returned, on the success path and on every
\* failure path (generation failure, execution failure, exhausted rectification).
C19_ConnectionClosedOnReturn ==
    q_pc = "returned" => q_conn # "open"

\* filter_tables returned its denial message for this question
Denied == q_sql = DenialMessage

\* C26: when the table-access check denies a question, no statement is
\* executed, no correction is requested, and the denial message is what the
\* caller receives.
C26_DeniedQuestionNotExecuted ==
    Denied =>
        /\ \A i \in 1..Len(q_events) :
              /\ q_events[i].ev # "correct"
              /\ q_events[i].sent = <<>>
        /\ q_pc = "returned" => (q_status = 200 /\ q_body_sql = DenialMessage)

\* the case in which C26 holds: an adapter without rectification attempts
C26_DeniedWithoutRectification ==
    (Denied /\ q_attempts = 0) =>
        /\ \A i \in 1..Len(q_events) :
              /\ q_events[i].ev # "correct"
              /\ q_events[i].sent = <<>>
        /\ q_pc = "returned" => (q_status = 200 /\ q_body_sql = DenialMessage)

(***************************************************************************)
(* One question through lambda_handler and generate_answers_db             *)
(* (data-analyst); error messages are sequences of characters              *)
(***************************************************************************)
\* line 283: the text the re-execution loop looks for
ExecutionFailedNeedle ==
    <<"E","x","e","c","u","t","i","o","n"," ","f","a","i","l","e","d">>

\* pgsql_executor.py line 109
TimeoutText ==
    <<"S","Q","L"," ","e","x","e","c","u","t","i","o","n"," ","t","i","m","e","o","u",
      "t"," ","e","r","r","o","r","!">>

\* pgsql_executor.py line 88, for num_rows = 4
RecordThreshText ==
    <<"N","u","m","b","e","r"," ","o","f"," ","d","a","t","a"," ","r","e","c","o","r",
      "d","s"," ","i","s"," ","4"," ","w","h","i","c","h"," ","i","s"," ","m","o","r",
      "e"," ","t","h","a","n"," ","t","h","e"," ","t","h","r","e","s","h","o","l","d",
      "."," ","R","e","p","h","r","a","s","e"," ","t","h","e"," ","q","u","e","s","t",
      "i","o","n"," ","b","y"," ","a","d","d","i","n","g"," ","a"," ","f","i","l","t",
      "e","r"," ","c","r","i","t","e","r","i","a">>

\* str(e) of the driver error raised by the count query (pgsql_executor.py line 75)
SyntaxErrorText ==
    <<"s","y","n","t","a","x"," ","e","r","r","o","r"," ","a","t"," ","o","r"," ","n",
      "e","a","r"," ","\"","F","O","R","M","\"">>

\* str(e) of the DatabaseError pandas raises from read_sql_query (line 84)
DriverFailedText ==
    <<"E","x","e","c","u","t","i","o","n"," ","f","a","i","l","e","d"," ","o","n"," ",
      "s","q","l",":"," ","c","o","n","n","e","c","t","i","o","n"," ","r","e","s","e",
      "t">>

\* pgsql_executor.py lines 99 and 114
NoEngineText ==
    <<"E","x","e","c","u","t","i","o","n"," ","e","r","r","o","r",":"," ","D","a","t",
      "a","b","a","s","e"," ","c","o","n","n","e","c","t","i","o","n"," ","n","o","t",
      " ","e","s","t","a","b","l","i","s","h","e","d">>

\* body.get('error') when run_sql ended with an error string
QuerybotErrorText ==
    <<"e","r","r","o","r">>

\* line 132
UnknownLambdaErrorText ==
    <<"U","n","k","n","o","w","n"," ","e","r","r","o","r"," ","i","n"," ","S","Q","L",
      " ","g","e","n","e","r","a","t","o","r"," ","L","a","m","b","d","a">>

\* line 266
ConvertErrorText ==
    <<"E","r","r","o","r"," ","c","o","n","v","e","r","t","i","n","g"," ","S","Q","L",
      " ","r","e","s","u","l","t"," ","t","o"," ","D","a","t","a","F","r","a","m","e",
      ":"," ">>

\* error_msg returned by a text generator
LlmErrorText ==
    <<"A","n"," ","e","r","r","o","r"," ","o","c","c","u","r","r","e","d">>

\* line 283: iter_no < 4
RetryLimit == 4

\* what get_sql_result can hand back: [df, error_msg], with the exit path taken
GuardOutcomes ==
    {[rows |-> n, error_msg |-> <<>>, kind |-> "ok"] : n \in {0, 1}}
    \cup {[rows |-> 0, error_msg |-> m, kind |-> "backend"] :
             m \in {SyntaxErrorText, DriverFailedText, NoEngineText}}
    \cup {[rows |-> 0, error_msg |-> TimeoutText, kind |-> "timeout"],
          [rows |-> 0, error_msg |-> RecordThreshText, kind |-> "threshold"]}

\* get_sql_from_athena: [df, error_msg]; it counts nothing and polls without limit
AthenaOutcomes ==
    {[rows |-> n, error_msg |-> <<>>, kind |-> "ok"] : n \in {0, 1}}
    \cup {[rows |-> 0, error_msg |-> SyntaxErrorText, kind |-> "backend"]}

\* invoke_sql_generator_lambda: the error_msg of its 3-tuple
GeneratorErrors == {<<>>, QuerybotErrorText, UnknownLambdaErrorText}

QueryTypes == {"aggregation", "reasoning", "other"}

Step(name, via) == [step |-> name, via |-> via]

\* lines 283 and 372: 'Execution failed' in error_msg and iter_no < 4
LoopCondition(error_msg, iter_no) ==
    contains(error_msg, ExecutionFailedNeedle) /\ iter_no < RetryLimit

\* normalization entered whatever the execution returned
NormalizationGateOpen(error_msg) == TRUE

\* lines 291-293: the else branch of `if error_msg != ''`
NormalizationGate(error_msg) == error_msg = <<>>

OrchStart ==
    /\ o_entry \in {"lambda_handler", "generate_answers_db"}
    /\ o_db_type \in {"postgresql", "s3"}
    /\ o_query_type \in QueryTypes
    /\ o_pc = IF o_entry = "lambda_handler" THEN "lookup" ELSE "start"
    /\ o_error_msg = <<>>
    /\ o_rows = 0
    /\ o_iter_no = 0
    /\ o_answer_gen = ""
    /\ o_log = <<>>
    /\ o_raised = FALSE
    /\ o_first = <<>>
    /\ o_status = 0

OrchInit == OrchStart /\ GuardIdle /\ RunIdle /\ LamIdle /\ NormIdle /\ SchemaIdle /\ ConnIdle /\ CacheIdle /\ ExtractIdle

\* lines 392-398: the except clause logs the exception, leaves error_msg as it
\* is, and the function returns
OrchRaise ==
    /\ o_raised' = TRUE
    /\ o_error_msg' = o_error_msg
    /\ o_pc' = "returned"

\* a return statement of lambda_handler
ApiResponse(status) ==
    /\ o_status' = status
    /\ o_pc' = "returned"

\* lines 340-362: get_cached_query; an exception becomes SQLGenerationError and is
\* answered by the handler's last except clause
PipeLookup ==
    /\ o_entry = "lambda_handler"
    /\ o_pc = "lookup"
    /\ o_log' = Append(o_log, Step("lookup", "get_cached_query"))
    /\ \/ /\ o_pc' \in {"cached_exec", "schema"}
          /\ o_status' = o_status
       \/ ApiResponse(500)
    /\ UNCHANGED <<o_entry, o_db_type, o_query_type, o_error_msg, o_rows, o_iter_no,
                   o_answer_gen, o_raised, o_first>>
    /\ UNCHANGED nonOrchVars

\* ignoring what the execution reported
HasErrorNever(error_msg) == FALSE

\* line 387: if error_msg
HasError(error_msg) == error_msg # <<>>

\* the call at line 395 passes model_region, which generate_answer_en
\* (orchestrator_db.py line 158) does not accept: TypeError
CachedAnswerStatus(rows) == IF rows = 0 THEN 200 ELSE 500

\* lines 364-418: cached_flag is set; connect, execute the cached SQL, answer
PipeCachedExec ==
    /\ o_entry = "lambda_handler"
    /\ o_pc = "cached_exec"
    /\ \/ /\ ApiResponse(500)
          /\ UNCHANGED <<o_log, o_error_msg, o_rows>>
       \/ \E out \in IF o_db_type = "s3" THEN AthenaOutcomes ELSE GuardOutcomes :
             /\ o_log' = Append(o_log, Step("execute",
                                   IF o_db_type = "s3" THEN "get_sql_from_athena"
                                   ELSE "get_sql_result"))
             /\ o_error_msg' = out.error_msg
             /\ o_rows' = out.rows
             /\ IF HasError(out.error_msg)
                THEN ApiResponse(500)
                ELSE ApiResponse(CachedAnswerStatus(out.rows))
    /\ UNCHANGED <<o_entry, o_db_type, o_query_type, o_iter_no, o_answer_gen,
                   o_raised, o_first>>
    /\ UNCHANGED nonOrchVars

\* lines 421-483: schema extraction; `if not schema_str` and the except clause
\* answer 500
PipeSchema ==
    /\ o_entry = "lambda_handler"
    /\ o_pc = "schema"
    /\ o_log' = Append(o_log, Step("schema", "extract_schema"))
    /\ \/ /\ o_pc' = "intent"
          /\ o_status' = o_status
       \/ ApiResponse(500)
    /\ UNCHANGED <<o_entry, o_db_type, o_query_type, o_error_msg, o_rows, o_iter_no,
                   o_answer_gen, o_raised, o_first>>
    /\ UNCHANGED nonOrchVars

\* lines 485-500: the call at line 488 passes model_region, which question_intent
\* (orchestrator_db.py line 548) does not accept: TypeError, answered at line 500
PipeIntent ==
    /\ o_entry = "lambda_handler"
    /\ o_pc = "intent"
    /\ ApiResponse(500)
    /\ UNCHANGED <<o_entry, o_db_type, o_query_type, o_error_msg, o_rows, o_iter_no,
                   o_answer_gen, o_log, o_raised, o_first>>
    /\ UNCHANGED nonOrchVars

\* lines 244-256 (aggregation) and 318-344 (reasoning): the statement is asked
\* from the querybot lambda; invoke_sql_generator_lambda returns its error as text
OrchGenerate ==
    /\ o_entry = "generate_answers_db"
    /\ o_pc = "start"
    /\ \/ /\ o_query_type = "aggregation"
          /\ o_log' = Append(o_log, Step("generate", "invoke_sql_generator_lambda"))
          /\ \E e \in GeneratorErrors :
                /\ o_error_msg' = e
                /\ o_pc' = IF e = <<>> THEN "execute" ELSE "returned"
          /\ o_raised' = o_raised
       \/ /\ o_query_type = "reasoning"
          /\ \/ \* FewShotModifierBedrock(...) or generate_subquery raised
                /\ o_log' \in {o_log, Append(o_log, Step("subquestion", "generate_subquery"))}
                /\ OrchRaise
             \/ \* generate_subquery returned an error
                /\ o_log' = Append(o_log, Step("subquestion", "generate_subquery"))
                /\ o_error_msg' = LlmErrorText
                /\ o_pc' = "returned"
                /\ o_raised' = o_raised
             \/ /\ o_log' = o_log \o <<Step("subquestion", "generate_subquery"),
                                       Step("generate", "invoke_sql_generator_lambda")>>
                /\ \E e \in GeneratorErrors :
                      /\ o_error_msg' = e
                      /\ o_pc' = IF e = <<>> THEN "execute" ELSE "returned"
                /\ o_raised' = o_raised
       \/ /\ o_query_type = "other"
          /\ o_pc' = "returned"
          /\ UNCHANGED <<o_log, o_error_msg, o_raised>>
    /\ UNCHANGED <<o_entry, o_db_type, o_query_type, o_rows, o_iter_no, o_answer_gen,
                   o_first, o_status>>
    /\ UNCHANGED nonOrchVars

\* lines 258-280 and 347-367: the first execution. For the object store the rows
\* are those run_sql of the querybot lambda produced; otherwise get_sql_result runs
\* the statement
OrchExecute ==
    /\ o_entry = "generate_answers_db"
    /\ o_pc = "execute"
    /\ IF o_db_type = "s3"
       THEN /\ \E out \in {[rows |-> 0, error_msg |-> <<>>, kind |-> "ok"],
                           [rows |-> 1, error_msg |-> <<>>, kind |-> "ok"],
                           [rows |-> 0, error_msg |-> ConvertErrorText, kind |-> "convert"]} :
                  /\ o_first' = out
                  /\ o_rows' = out.rows
                  /\ o_error_msg' = out.error_msg
            /\ o_log' = Append(o_log, Step("execute", "run_sql"))
            /\ o_pc' = IF o_query_type = "aggregation" THEN "after" ELSE "retry"
       ELSE /\ \E out \in GuardOutcomes :
                  /\ o_first' = out
                  /\ o_rows' = out.rows
                  /\ o_error_msg' = out.error_msg
            /\ o_log' = Append(o_log, Step("execute", "get_sql_result"))
            /\ o_pc' = "retry"
    /\ o_iter_no' = 1
    /\ UNCHANGED <<o_entry, o_db_type, o_query_type, o_answer_gen, o_raised, o_status>>
    /\ UNCHANGED nonOrchVars

\* lines 283-288 and 372-377: one pass of the re-execution loop
OrchRetry ==
    /\ o_entry = "generate_answers_db"
    /\ o_pc = "retry"
    /\ LoopCondition(o_error_msg, o_iter_no)
    /\ \E out \in GuardOutcomes :
          /\ o_rows' = out.rows
          /\ o_error_msg' = out.error_msg
    /\ o_log' = Append(o_log, Step("reexecute", "get_sql_result"))
    /\ o_iter_no' = o_iter_no + 1
    /\ UNCHANGED <<o_entry, o_db_type, o_query_type, o_pc, o_answer_gen, o_raised,
                   o_first, o_status>>
    /\ UNCHANGED nonOrchVars

\* run_normalization_process re-executes through get_sql_from_athena for the
\* object store and through get_sql_result otherwise (postprocessor.py 266-270)
NormalizedVia(db_type) ==
    IF db_type = "s3" THEN "get_sql_from_athena" ELSE "get_sql_result"

\* lines 291-300 (aggregation) and 381-390 (reasoning): after the loop
OrchAfterExecution ==
    /\ o_entry = "generate_answers_db"
    /\ \/ o_pc = "after"
       \/ o_pc = "retry" /\ ~LoopCondition(o_error_msg, o_iter_no)
    /\ IF ~NormalizationGate(o_error_msg)
       THEN /\ o_pc' = "returned"
            /\ UNCHANGED <<o_log, o_rows, o_error_msg, o_answer_gen, o_raised>>
       ELSE IF o_query_type = "aggregation"
       THEN \/ \* returned without re-executing
               /\ o_log' = Append(o_log, Step("normalize", "run_normalization_process"))
               /\ o_pc' = "answer"
               /\ UNCHANGED <<o_rows, o_error_msg, o_answer_gen, o_raised>>
            \/ \* re-executed the rewritten statement; its error_msg is dropped
               /\ o_rows \in {0, 1}
               /\ o_log' = o_log \o <<Step("normalize", "run_normalization_process"),
                                      Step("reexecute_normalized", NormalizedVia(o_db_type))>>
               /\ o_rows' \in {0, 1}
               /\ o_pc' = "answer"
               /\ UNCHANGED <<o_error_msg, o_answer_gen, o_raised>>
            \/ \* convert_schema_dict_to_df raised (postprocessor.py line 33)
               /\ o_log' = Append(o_log, Step("normalize", "run_normalization_process"))
               /\ OrchRaise
               /\ UNCHANGED <<o_rows, o_answer_gen>>
       ELSE \/ \* generate_reasoning returned
               /\ o_log' = Append(o_log, Step("answer", "generate_reasoning"))
               /\ \/ o_answer_gen' = "answer" /\ o_error_msg' = o_error_msg
                  \/ o_answer_gen' = "" /\ o_error_msg' = LlmErrorText
               /\ o_pc' = "returned"
               /\ UNCHANGED <<o_rows, o_raised>>
            \/ \* FewShotReasonerBedrock(...) or generate_reasoning raised
               /\ o_log' \in {o_log, Append(o_log, Step("answer", "generate_reasoning"))}
               /\ OrchRaise
               /\ UNCHANGED <<o_rows, o_answer_gen>>
    /\ UNCHANGED <<o_entry, o_db_type, o_query_type, o_iter_no, o_first, o_status>>
    /\ UNCHANGED nonOrchVars

\* lines 295-303: the explanation of an aggregation result
OrchExplain ==
    /\ o_entry = "generate_answers_db"
    /\ o_pc = "answer"
    /\ IF o_error_msg # <<>>
       THEN /\ o_pc' = "returned"
            /\ UNCHANGED <<o_log, o_error_msg, o_answer_gen, o_raised>>
       ELSE IF o_rows = 0
       THEN /\ o_answer_gen' = "suggestion"
            /\ o_pc' = "returned"
            /\ UNCHANGED <<o_log, o_error_msg, o_raised>>
       ELSE \/ /\ o_log' = Append(o_log, Step("answer", "generate_answer_en"))
               /\ \/ o_answer_gen' = "answer" /\ o_error_msg' = o_error_msg
                  \/ o_answer_gen' = "" /\ o_error_msg' = LlmErrorText
               /\ o_pc' = "returned"
               /\ o_raised' = o_raised
            \/ /\ o_log' \in {o_log, Append(o_log, Step("answer", "generate_answer_en"))}
               /\ OrchRaise
               /\ o_answer_gen' = o_answer_gen
    /\ UNCHANGED <<o_entry, o_db_type, o_query_type, o_rows, o_iter_no, o_first,
                   o_status>>
    /\ UNCHANGED nonOrchVars

OrchNext ==
    \/ PipeLookup
    \/ PipeCachedExec
    \/ PipeSchema
    \/ PipeIntent
    \/ OrchGenerate
    \/ OrchExecute
    \/ OrchRetry
    \/ OrchAfterExecution
    \/ OrchExplain

SpecOrch == OrchInit /\ [][OrchNext]_vars

(***************************************************************************)
(* Properties of the question pipeline                                     *)
(***************************************************************************)
StepsNamed(name) == {i \in 1..Len(o_log) : o_log[i].step = name}
Retries == Cardinality(StepsNamed("reexecute"))
PastRetryLoop == o_pc \in {"answer", "returned"}

\* C21: in generate_answers_db a failed first execution is re-executed (up to 3
\* more times) exactly when get_sql_result returned a generic backend execution
\* error; after a timeout failure, a record-threshold failure or a success nothing
\* is re-executed.
C21_RetryOnBackendErrorOnly ==
    (o_entry = "generate_answers_db" /\ o_db_type # "s3" /\ o_first # <<>>
       /\ PastRetryLoop) =>
        /\ o_first.kind = "backend" => Retries >= 1
        /\ o_first.kind \in {"ok", "timeout", "threshold"} => Retries = 0
        /\ Retries <= 3

ExecutionSteps == {"execute", "reexecute", "reexecute_normalized"}
Executions == {i \in 1..Len(o_log) : o_log[i].step \in ExecutionSteps}

\* C22: every execution of a question's SQL (the first execution, each retry, the
\* execution of a cached SQL, the re-execution of a normalized SQL), for every
\* backend kind, is made by get_sql_result, which counts the rows first and runs
\* under the time threshold.
C22_EveryExecutionGuarded ==
    \A i \in Executions : o_log[i].via = "get_sql_result"

\* C27: when a step inside generate_answers_db raised, the error_msg it returns is
\* not empty.
C27_RaisedStepReported ==
    (o_entry = "generate_answers_db" /\ o_pc = "returned" /\ o_raised) =>
        o_error_msg # <<>>

\* position of the first step of that name in the log, 0 when there is none
FirstStep(name) ==
    IF StepsNamed(name) = {} THEN 0
    ELSE CHOOSE i \in StepsNamed(name) : \A j \in StepsNamed(name) : i <= j

Appended == SubSeq(o_log', Len(o_log) + 1, Len(o_log'))

Invocations == {1, 2}

\* the cache operations an invocation performs
CacheOps == {"store", "lookup"}

\* states of the cache table in the store: absent, created inside a
\* transaction that is still open (owner = the invocation), or committed
TableAbsent == [state |-> "absent", owner |-> 0]
TablePresent == [state |-> "present", owner |-> 0]
TablePending(p) == [state |-> "pending", owner |-> p]

\* what an operation returned; status_code is 0 for get_cached_query
NotReturned == [value |-> "pending", status_code |-> 0]
Returned(value, status_code) == [value |-> value, status_code |-> status_code]

\* information_schema.tables shows a table once its creation is committed,
\* or to the transaction that created it
TableVisible(p) ==
    \/ k_table.state = "present"
    \/ k_table.state = "pending" /\ k_table.owner = p

\* get_cached_query sets conn.autocommit = True (line 338); write_to_cache
\* leaves the connection transactional
Autocommit(p) == k_op[p] = "lookup"

CacheStart ==
    /\ k_op \in [Invocations -> CacheOps]
    /\ k_pc = [p \in Invocations |-> IF k_op[p] = "store" THEN "prepare" ELSE "connect"]
    /\ k_conn = [p \in Invocations |-> "unbound"]
    /\ k_ret = [p \in Invocations |-> NotReturned]
    /\ k_raised = [p \in Invocations |-> FALSE]
    /\ k_fault = FALSE
    /\ k_table0 \in {"absent", "present"}
    /\ k_table = IF k_table0 = "absent" THEN TableAbsent ELSE TablePresent
    /\ k_created = 0
    /\ k_rows = 0

CacheInit ==
    /\ CacheStart
    /\ GuardIdle /\ RunIdle /\ LamIdle /\ NormIdle /\ SchemaIdle /\ ConnIdle /\ OrchIdle
    /\ ExtractIdle

\* the operation of invocation p raises to its caller; conn is left as it is
CacheRaise(p) ==
    /\ k_pc' = [k_pc EXCEPT ![p] = "returned"]
    /\ k_raised' = [k_raised EXCEPT ![p] = TRUE]
    /\ UNCHANGED <<k_conn, k_ret>>

\* a transaction of p that is rolled back or whose connection is closed
\* takes its uncommitted CREATE TABLE with it
Rollback(p) == IF k_table = TablePending(p) THEN TableAbsent ELSE k_table

\* a psycopg2.Error reaches the caller of create_cache_table_if_not_exists
\* or of insert_data_to_postgres.
\* write_to_cache (lines 263-271): message and status 500, conn closed in
\* the finally block.  get_cached_query (lines 343-345): return None; the
\* connection is not closed.
CacheStoreError(p) ==
    /\ k_pc' = [k_pc EXCEPT ![p] = "returned"]
    /\ IF k_op[p] = "store"
         THEN /\ k_ret' = [k_ret EXCEPT ![p] = Returned("error", 500)]
              /\ k_conn' = [k_conn EXCEPT ![p] = "closed"]
         ELSE /\ k_ret' = [k_ret EXCEPT ![p] = Returned("none_after_error", 0)]
              /\ k_conn' = k_conn
    /\ UNCHANGED k_raised

\* write_to_cache lines 247-251: get_expl_question and get_embedding are
\* called before the try block, so their exceptions leave write_to_cache
CachePrepare(p) ==
    /\ k_pc[p] = "prepare"
    /\ \/ /\ k_pc' = [k_pc EXCEPT ![p] = "connect"]
          /\ UNCHANGED <<k_conn, k_ret, k_raised, k_fault>>
       \/ /\ CacheRaise(p)
          /\ k_fault' = TRUE
    /\ UNCHANGED <<k_op, k_table, k_table0, k_created, k_rows>>
    /\ UNCHANGED nonCacheVars

\* psycopg2.connect (write_to_cache line 255, get_cached_query line 337).
\* When it fails in write_to_cache the except clause sets message and
\* status_code, then `if conn:` in the finally block reads the local conn
\* that was never assigned: UnboundLocalError leaves write_to_cache.
\* In get_cached_query the except clause returns None.
CacheConnect(p) ==
    /\ k_pc[p] = "connect"
    /\ \/ /\ k_conn' = [k_conn EXCEPT ![p] = "open"]
          /\ k_pc' = [k_pc EXCEPT ![p] = "check"]
          /\ UNCHANGED <<k_ret, k_raised, k_fault>>
       \/ /\ k_fault' = TRUE
          /\ IF k_op[p] = "store"
               THEN CacheRaise(p)
               ELSE /\ k_pc' = [k_pc EXCEPT ![p] = "returned"]
                    /\ k_ret' = [k_ret EXCEPT ![p] = Returned("none_after_error", 0)]
                    /\ UNCHANGED <<k_conn, k_raised>>
    /\ UNCHANGED <<k_op, k_table, k_table0, k_created, k_rows>>
    /\ UNCHANGED nonCacheVars

\* create_cache_table_if_not_exists lines 45-54: SELECT EXISTS on
\* information_schema.tables, then `if not table_exists`
CacheCheck(p) ==
    /\ k_pc[p] = "check"
    /\ \/ /\ k_pc' = [k_pc EXCEPT ![p] = IF TableVisible(p) THEN "operate" ELSE "create"]
          /\ UNCHANGED <<k_conn, k_ret, k_raised, k_fault>>
       \/ /\ CacheStoreError(p)
          /\ k_fault' = TRUE
    /\ UNCHANGED <<k_op, k_table, k_table0, k_created, k_rows>>
    /\ UNCHANGED nonCacheVars

\* create_cache_table_if_not_exists lines 58-75: CREATE EXTENSION IF NOT
\* EXISTS, then CREATE TABLE without IF NOT EXISTS.  The store makes the
\* statement wait while another transaction holds an uncommitted creation
\* of the same name, and fails it (relation already exists) when the table
\* is there.  With autocommit the creation is committed at once.
\* Failure: line 88-91, rollback and re-raise.
CacheCreate(p) ==
    /\ k_pc[p] = "create"
    /\ ~(k_table.state = "pending" /\ k_table.owner # p)
    /\ IF k_table.state = "present"
         THEN /\ CacheStoreError(p)
              /\ UNCHANGED <<k_table, k_created, k_fault>>
         ELSE \/ /\ k_table' = IF Autocommit(p) THEN TablePresent ELSE TablePending(p)
                 /\ k_created' = IF Autocommit(p) THEN k_created + 1 ELSE k_created
                 /\ k_pc' = [k_pc EXCEPT ![p] = "commit"]
                 /\ UNCHANGED <<k_conn, k_ret, k_raised, k_fault>>
              \/ /\ CacheStoreError(p)
                 /\ k_fault' = TRUE
                 /\ UNCHANGED <<k_table, k_created>>
    /\ UNCHANGED <<k_op, k_table0, k_rows>>
    /\ UNCHANGED nonCacheVars

\* create_cache_table_if_not_exists lines 78-84: CREATE INDEX, then
\* conn.commit().  A failure rolls a transactional creation back (line 90).
CacheCommit(p) ==
    /\ k_pc[p] = "commit"
    /\ \/ /\ k_table' = IF k_table = TablePending(p) THEN TablePresent ELSE k_table
          /\ k_created' = IF k_table = TablePending(p) THEN k_created + 1 ELSE k_created
          /\ k_pc' = [k_pc EXCEPT ![p] = "operate"]
          /\ UNCHANGED <<k_conn, k_ret, k_raised, k_fault>>
       \/ /\ CacheStoreError(p)
          /\ k_fault' = TRUE
          /\ k_table' = Rollback(p)
          /\ UNCHANGED k_created
    /\ UNCHANGED <<k_op, k_table0, k_rows>>
    /\ UNCHANGED nonCacheVars

\* write_to_cache lines 261-271: insert_data_to_postgres (INSERT and
\* commit, lines 219-236), status 200; psycopg2.Error gives status 500;
\* the finally block closes conn.
\* get_cached_query lines 347-356: get_embedding outside any try, then
\* similarity_search (which answers [] on every failure, lines 287-289),
\* then the query or None; conn is not closed on any of these paths.
CacheOperate(p) ==
    /\ k_pc[p] = "operate"
    /\ IF k_op[p] = "store"
         THEN \/ /\ k_rows' = k_rows + 1
                 /\ k_ret' = [k_ret EXCEPT ![p] = Returned("inserted", 200)]
                 /\ k_conn' = [k_conn EXCEPT ![p] = "closed"]
                 /\ k_pc' = [k_pc EXCEPT ![p] = "returned"]
                 /\ UNCHANGED <<k_raised, k_fault>>
              \/ /\ CacheStoreError(p)
                 /\ k_fault' = TRUE
                 /\ UNCHANGED k_rows
         ELSE /\ \/ /\ CacheRaise(p)
                    /\ k_fault' = TRUE
                 \/ /\ \E value \in {"query", "none"} :
                          k_ret' = [k_ret EXCEPT ![p] = Returned(value, 0)]
                    /\ k_pc' = [k_pc EXCEPT ![p] = "returned"]
                    /\ UNCHANGED <<k_conn, k_raised, k_fault>>
                 \/ /\ k_ret' = [k_ret EXCEPT ![p] = Returned("none", 0)]
                    /\ k_pc' = [k_pc EXCEPT ![p] = "returned"]
                    /\ k_fault' = TRUE
                    /\ UNCHANGED <<k_conn, k_raised>>
              /\ UNCHANGED k_rows
    /\ UNCHANGED <<k_op, k_table, k_table0, k_created>>
    /\ UNCHANGED nonCacheVars

CacheNext ==
    \E p \in Invocations :
        \/ CachePrepare(p)
        \/ CacheConnect(p)
        \/ CacheCheck(p)
        \/ CacheCreate(p)
        \/ CacheCommit(p)
        \/ CacheOperate(p)

SpecCache == CacheInit /\ [][CacheNext]_vars

\* both invocations have left their cache operation
AllReturned == \A p \in Invocations : k_pc[p] = "returned"

\* the cache operation of p ended in an error: it raised, write_to_cache
\* answered status 500, or get_cached_query gave up in its except clause
EndedInError(p) ==
    \/ k_raised[p]
    \/ k_ret[p].status_code = 500
    \/ k_ret[p].value = "none_after_error"

\* C23: when two invocations perform their first cache operation with the
\* cache table absent and nothing else fails, the table is created exactly
\* once and neither operation ends in an error, whatever the interleaving.
C23_TableCreatedOnceBothComplete ==
    (AllReturned /\ k_table0 = "absent" /\ ~k_fault) =>
        /\ k_created = 1
        /\ \A p \in Invocations : ~EndedInError(p)

\* the part of C23 that the store itself guarantees: one creation at most
C23_CreatedAtMostOnce == k_created <= 1

\* C29: write_to_cache never raises; it returns status 200 only after the
\* row is inserted and committed, and status 500 with a message otherwise.
C29_WriteToCacheNeverRaises ==
    \A p \in Invocations :
        (k_op[p] = "store" /\ k_pc[p] = "returned") =>
            /\ ~k_raised[p]
            /\ k_ret[p].status_code \in {200, 500}
            /\ k_ret[p].status_code = 200 => k_rows >= 1

\* C30: every connection a cache operation opened is closed when the
\* operation returns or raises.
C30_ConnectionClosedOnReturn ==
    \A p \in Invocations :
        (k_pc[p] = "returned" /\ k_conn[p] # "unbound") => k_conn[p] = "closed"

\* the part of C30 that holds: write_to_cache closes what it opened
C30_WriteToCacheCloses ==
    \A p \in Invocations :
        (k_op[p] = "store" /\ k_pc[p] = "returned" /\ k_conn[p] # "unbound") =>
            k_conn[p] = "closed"

\* ======================================================================
\* Per-table loops of DatabaseSchemaExtractor
\* (src/code/data-analyst/scripts/query_db/get_schema_str.py).
\* One extraction over three tables; for each table one call made while it
\* is processed may fail.
\* ======================================================================

\* the tables (CSV files) the extraction iterates over, in order
ExtractOrder == <<"t1", "t2", "t3">>
ExtractTables == {ExtractOrder[i] : i \in 1..Len(ExtractOrder)}

\* the call that fails while a table is processed.
\* "read": get_object / read_csv of the file (line 291-292);
\* "introspect": inspector.get_columns, get_pk_constraint or
\* get_foreign_keys (lines 140-163);
\* "distinct_operational": the distinct-values query raises
\* OperationalError (line 375);
\* "distinct_other": the distinct-values query raises another exception,
\* such as ProgrammingError for a column name that needs quoting
FaultsOf(db_type) ==
    IF db_type = "s3" THEN {"none", "read"}
    ELSE {"none", "introspect", "distinct_operational", "distinct_other"}

ExtractStart ==
    /\ e_db_type \in {"postgresql", "s3"}
    /\ e_faults \in [ExtractTables -> FaultsOf(e_db_type)]
    /\ e_pc = "tables"
    /\ e_k = 1
    /\ e_schema_info = [t \in ExtractTables |-> "absent"]
    /\ e_raised = FALSE

ExtractInit ==
    /\ ExtractStart
    /\ GuardIdle /\ RunIdle /\ LamIdle /\ NormIdle /\ SchemaIdle /\ ConnIdle /\ OrchIdle
    /\ CacheIdle

\* the loop goes to its next table, or the phase after the loop begins
ExtractAdvance(after) ==
    IF e_k < Len(ExtractOrder)
    THEN /\ e_k' = e_k + 1
         /\ e_pc' = e_pc
    ELSE /\ e_k' = 1
         /\ e_pc' = after

\* lines 172-176 (and 380-381 through them): the exception is wrapped and
\* raised again; extract_schema is left
ExtractRaise ==
    /\ e_raised' = TRUE
    /\ e_pc' = "done"
    /\ UNCHANGED <<e_k, e_schema_info>>

\* _extract_schema_from_s3 lines 276-344: one CSV file; the try block
\* around the body logs a failure (line 343-344) and the loop goes on
ExtractCsv ==
    /\ e_pc = "tables"
    /\ e_db_type = "s3"
    /\ LET t == ExtractOrder[e_k] IN
         e_schema_info' = IF e_faults[t] = "read" THEN e_schema_info
                          ELSE [e_schema_info EXCEPT ![t] = "sampled"]
    /\ ExtractAdvance("done")
    /\ UNCHANGED <<e_db_type, e_faults, e_raised>>
    /\ UNCHANGED nonExtractVars

\* _extract_schema_from_db lines 130-166: one table; no try block inside
\* the loop, so a failing inspector call reaches the except at line 172
ExtractTable ==
    /\ e_pc = "tables"
    /\ e_db_type # "s3"
    /\ LET t == ExtractOrder[e_k] IN
         IF e_faults[t] = "introspect"
         THEN ExtractRaise
         ELSE /\ e_schema_info' = [e_schema_info EXCEPT ![t] = "columns"]
              /\ ExtractAdvance("distinct")
              /\ UNCHANGED e_raised
    /\ UNCHANGED <<e_db_type, e_faults>>
    /\ UNCHANGED nonExtractVars

\* extract_distinct_values lines 364-381: the columns of one table of
\* schema_info; only OperationalError is caught (line 375), the column
\* keeping an empty list; every other exception is raised as
\* "Failed to extract distinct values" (line 380-381)
ExtractDistinct ==
    /\ e_pc = "distinct"
    /\ LET t == ExtractOrder[e_k] IN
         CASE e_faults[t] = "distinct_other" -> ExtractRaise
           [] e_faults[t] = "distinct_operational" ->
                /\ e_schema_info' = [e_schema_info EXCEPT ![t] = "no_samples"]
                /\ ExtractAdvance("done")
                /\ UNCHANGED e_raised
           [] OTHER ->
                /\ e_schema_info' = [e_schema_info EXCEPT ![t] = "sampled"]
                /\ ExtractAdvance("done")
                /\ UNCHANGED e_raised
    /\ UNCHANGED <<e_db_type, e_faults>>
    /\ UNCHANGED nonExtractVars

ExtractNext ==
    \/ ExtractCsv
    \/ ExtractTable
    \/ ExtractDistinct

SpecExtract == ExtractInit /\ [][ExtractNext]_vars

\* initialize_schema_extractor (lambda_function.py lines 126-170): the
\* schema_info handed on, empty when extract_schema raised
ExtractedInfo ==
    IF e_raised THEN {} ELSE {t \in ExtractTables : e_schema_info[t] # "absent"}

\* C25: a failure while one table is processed does not abort the
\* extraction: the tables without a failure are in the schema, and the
\* failing table is skipped or kept without sample values.
C25_TableFailureDoesNotAbort ==
    e_pc = "done" =>
        /\ ~e_raised
        /\ \A t \in ExtractTables :
              /\ e_faults[t] = "none" => (t \in ExtractedInfo /\ e_schema_info[t] = "sampled")
              /\ e_faults[t] # "none" => e_schema_info[t] \in {"absent", "no_samples"}

\* the failures the loops do contain: an unreadable CSV file and an
\* OperationalError of a distinct-values query
C25_ContainedFailures ==
    (e_pc = "done"
       /\ \A t \in ExtractTables : e_faults[t] \in {"none", "read", "distinct_operational"}) =>
        /\ ~e_raised
        /\ \A t \in ExtractTables :
              /\ e_faults[t] = "none" => (t \in ExtractedInfo /\ e_schema_info[t] = "sampled")
              /\ e_faults[t] # "none" => e_schema_info[t] \in {"absent", "no_samples"}

====
